---------------------------- MODULE Spec2Model ----------------------------
(***************************************************************************)
(* A model of the outbound request path of the USDA FoodData Central       *)
(* client (FoodDataCentralClient and its RequestLimiter).                  *)
(*                                                                         *)
(* The program runs on one JavaScript event loop: the code between two     *)
(* awaits runs without interruption, so every action below is one such     *)
(* run-to-completion segment of one caller (or the passing of time).       *)
(*                                                                         *)
(* Time is counted in ticks.  The limiter reads Date.now() only to form    *)
(* now - lastDispatched and compares it with minDelayMs, so the model      *)
(* keeps that difference (elapsed), saturated at minDelayMs, and for each  *)
(* pending setTimeout the ticks left before it may fire.                   *)
(***************************************************************************)
EXTENDS Naturals, Sequences, FiniteSets

\* ------------------------------------------------------------------------
\* Bounds of the model
\* ------------------------------------------------------------------------

\* number of logical callers that may be inside schedule() at the same time
NumCallers == 3
\* the limiter option maxConcurrent ranges over 1..MaxConcurrentBound
MaxConcurrentBound == 1
\* the retry option maxRetries ranges over 0..MaxRetriesBound
MaxRetriesBound == 1
\* the limiter option minDelayMs, in ticks
MinDelayTicks == 1

Callers == 1 .. NumCallers

VARIABLES
    maxConcurrent,  \* RequestLimiter.options.maxConcurrent
    minDelayMs,     \* RequestLimiter.options.minDelayMs
    maxRetries,     \* FoodDataCentralClient.retry.maxRetries
    active,         \* RequestLimiter.active
    waiters,        \* RequestLimiter.waiters: the callers whose resolve is queued
    elapsed,        \* Date.now() - RequestLimiter.lastDispatched, saturated at minDelayMs
    pc,             \* where each caller is in schedule / acquire / sendWithRetries
    timer,          \* ticks left on the caller's pending delay() in acquire
    attempt,        \* sendWithRetries: the local variable attempt
    lastError,      \* sendWithRetries: the local variable lastError
    result,         \* what schedule() settled with, once pc = "settled"
    sent,           \* history: sendOnce calls made by the caller's current call
    backoffs,       \* history: backoff delays started by the caller's current call
    seen,           \* history: per sendOnce call of the current call, its end and what it threw
    releases,       \* history: release() calls made by the caller's current call
    order,          \* history: the callers inside acquire, by arrival
    dispatchGap,    \* history: elapsed as read by the latest dispatch
    sinceSend,      \* history: ticks since the latest sendOnce call began, saturated at minDelayMs
    probe,          \* the latest application of a pure function outside a call
    task,           \* the tool call the server is handling, with its input
    spc,            \* where the handler of that tool call is
    upstream,       \* history: the getFoods requests the tool call has issued
    replies,        \* history: what each of those requests ended with
    got,            \* history: what each getFood call of the tool call returned or threw
    lookups,        \* history: the identifiers resolveFdcAlias was called with
    outcome,        \* what the awaited server function returned or threw
    loop,           \* fetchFoodForNutrients: the locals index, aliasInfo, lastResult
    tried           \* history: per attempt of fetchFoodForNutrients, how its fetch ended

serverVars == <<task, spc, upstream, replies, got, lookups, outcome, loop, tried>>
limiterVars == <<active, waiters, elapsed>>
configVars == <<maxConcurrent, minDelayMs, maxRetries>>
callVars == <<pc, timer, attempt, lastError, result>>
historyVars == <<sent, backoffs, seen, releases, order, dispatchGap, sinceSend>>
vars == <<configVars, limiterVars, callVars, historyVars, probe, serverVars>>


\* ------------------------------------------------------------------------
\* Upstream transport: one attempt (sendOnce) and its error classification
\* ------------------------------------------------------------------------

\* HTTP statuses a response may carry (both sides of every boundary the
\* classification tests: 2xx, 429, 500..599)
Statuses == {200, 204, 299, 300, 400, 404, 428, 429, 430, 499, 500, 503, 599, 600}

\* error codes an error envelope may carry ("none": no string code)
EnvelopeCodes == {"none", "OVER_RATE_LIMIT", "API_KEY_INVALID"}

\* What response.json() meets: a body that is not JSON, a read cut by the
\* timeout, a JSON value without an error object, or {error: {code, status}}
\* (status 0: neither error.status nor error.httpStatus is a number).
Bodies ==
    [form : {"malformed", "aborted", "data"}, code : {"none"}, status : {0}]
        \cup [form : {"envelope"}, code : EnvelopeCodes, status : {0} \cup Statuses]

\* What one fetch() can end with: the timeout aborting it, a transport-level
\* failure, or a response with a status and a body.
Responses ==
    [kind : {"abort", "network"}, status : {0},
     body : {[form |-> "data", code |-> "none", status |-> 0]}]
        \cup [kind : {"http"}, status : Statuses, body : Bodies]

\* new FoodDataCentralError(message, {status, retryable}); status 0 is undefined.
\* fdc is FALSE for a thrown value that is no FoodDataCentralError.
FoodDataCentralError(message, status, retryable) ==
    [fdc |-> TRUE, message |-> message, status |-> status, retryable |-> retryable]

NoError == [fdc |-> FALSE, message |-> "none", status |-> 0, retryable |-> FALSE]

\* a thrown value that is not a FoodDataCentralError
ForeignError == [fdc |-> FALSE, message |-> "foreign", status |-> 0, retryable |-> FALSE]

\* faulty variant: 500 itself left out of the retryable range
isRetryableStatusHalfOpen(status) ==
    status = 429 \/ (status > 500 /\ status < 600)

isRetryableStatus(status) ==
    status = 429 \/ (status >= 500 /\ status < 600)

\* response.ok
ResponseOk(status) == status >= 200 /\ status <= 299

\* faulty variant: the envelope's own status is not looked at
detectUsdaErrorEnvelopeFallbackOnly(payload, fallbackStatus) ==
    IF payload.form # "envelope"
    THEN [found |-> FALSE, status |-> 0, retryable |-> FALSE]
    ELSE [found |-> TRUE,
          status |-> fallbackStatus,
          retryable |-> (payload.code = "OVER_RATE_LIMIT"
                          \/ isRetryableStatus(fallbackStatus))]

\* detectUsdaErrorEnvelope(payload, fallbackStatus): found is FALSE for undefined
detectUsdaErrorEnvelope(payload, fallbackStatus) ==
    IF payload.form # "envelope"
    THEN [found |-> FALSE, status |-> 0, retryable |-> FALSE]
    ELSE LET effectiveStatus == IF payload.status # 0 THEN payload.status ELSE fallbackStatus
         IN  [found |-> TRUE,
              status |-> effectiveStatus,
              retryable |-> (payload.code = "OVER_RATE_LIMIT"
                              \/ (IF effectiveStatus # 0
                                  THEN isRetryableStatus(effectiveStatus) ELSE FALSE))]

TimedOut == FoodDataCentralError("FoodData Central request timed out", 0, TRUE)
RequestFailed == FoodDataCentralError("FoodData Central request failed", 0, TRUE)

\* sendOnce: what one transport attempt returns or throws for a given end of
\* its fetch.  ok: the parsed body is returned; otherwise error is thrown.
sendOnce(resp) ==
    IF resp.kind = "abort" THEN [ok |-> FALSE, error |-> TimedOut]
    ELSE IF resp.kind = "network" THEN [ok |-> FALSE, error |-> RequestFailed]
    ELSE IF ~ResponseOk(resp.status)
    THEN [ok |-> FALSE,
          error |-> FoodDataCentralError("http", resp.status, isRetryableStatus(resp.status))]
    ELSE IF resp.body.form = "aborted" THEN [ok |-> FALSE, error |-> TimedOut]
    ELSE IF resp.body.form = "malformed" THEN [ok |-> FALSE, error |-> RequestFailed]
    ELSE LET bodyError == detectUsdaErrorEnvelope(resp.body, resp.status)
         IN  IF bodyError.found
             THEN [ok |-> FALSE,
                   error |-> FoodDataCentralError("envelope", bodyError.status,
                                                  bodyError.retryable)]
             ELSE [ok |-> TRUE, error |-> NoError]

\* faulty variant: one retry too many (attempt > maxRetries)
shouldRetryInclusive(error, n) ==
    IF n > maxRetries THEN FALSE
    ELSE IF error.fdc THEN error.retryable
    ELSE FALSE

\* faulty variant: the retryable flag is not looked at
shouldRetryAnyError(error, n) ==
    IF n >= maxRetries THEN FALSE ELSE TRUE

\* faulty variant: the attempt index is not looked at
shouldRetryAnyIndex(error, n) ==
    IF error.fdc THEN error.retryable ELSE FALSE

\* FoodDataCentralClient.shouldRetry(error, attempt)
shouldRetry(error, n) ==
    IF n >= maxRetries THEN FALSE
    ELSE IF error.fdc THEN error.retryable
    ELSE FALSE

\* ------------------------------------------------------------------------
\* Food records, bulk replies and the alias table
\* ------------------------------------------------------------------------

\* how many records a reply to one getFoods request holds at most
MaxBatchLen == 2

\* the static alias table: retired identifier -> replacement
FDC_ID_ALIASES ==
    { [requestedId |-> 4053, replacementId |-> 748608, dataset |-> "Foundation",
       rationale |-> "USDA retired the SR Legacy olive oil record"] }

\* what resolveFdcAlias returns for an identifier without entry (undefined)
NoAlias == [requestedId |-> 0, replacementId |-> 0, dataset |-> "none", rationale |-> "none"]

\* resolveFdcAlias(fdcId): FDC_ID_ALIASES.get(fdcId)
resolveFdcAlias(fdcId) ==
    IF \E a \in FDC_ID_ALIASES : a.requestedId = fdcId
    THEN CHOOSE a \in FDC_ID_ALIASES : a.requestedId = fdcId
    ELSE NoAlias

\* the identifiers a tool call may name: the retired one, its replacement and
\* one the alias table does not know
FdcIds == {4053, 748608, 1000}

\* the format option of a food query ("undefined": not given)
Formats == {"abridged", "full", "undefined"}

\* the nutrient keys the model tells apart
NutrientKeys == {"protein", "fat"}

\* NUTRIENT_DEFINITIONS[key].ids
NutrientIds(key) ==
    IF key = "protein" THEN {1003, 203}
    ELSE IF key = "iron" THEN {1089, 303}
    ELSE {1004, 204, 1085}

\* the micronutrient key the model tells apart
MicroKey == "iron"

\* The JavaScript values a field of a nutrient entry may hold: undefined (the
\* field is absent), null, the numbers 0 and 5, the strings "0" and "".
RawValues == {"undefined", "null", "num0", "num5", "str0", "strEmpty"}

\* a number | undefined: the undefined value
Undefined == [defined |-> FALSE, value |-> 0]

\* toFiniteNumber(value)
toFiniteNumber(raw) ==
    IF raw = "num0" THEN [defined |-> TRUE, value |-> 0]
    ELSE IF raw = "num5" THEN [defined |-> TRUE, value |-> 5]
    ELSE IF raw = "num14" THEN [defined |-> TRUE, value |-> 14]
    ELSE IF raw = "str0" THEN [defined |-> TRUE, value |-> 0]
    ELSE Undefined

\* a ?? b
Coalesce(a, b) == IF a \in {"undefined", "null"} THEN b ELSE a

\* The foodNutrients entry of the micronutrient in a record: its amount (the
\* field amount or, absent that, value) and its dataPoints, the number of
\* samples behind the amount.  The entry carries no nested nutrient.amount.
NutrientEntries == [amount : RawValues, dataPoints : {"undefined", "num0", "num5"}]

\* the record has no entry for the micronutrient
NoEntry == [amount |-> "undefined", dataPoints |-> "undefined"]

\* resolveNutrientAmount(entry)
resolveNutrientAmount(entry) ==
    LET direct == toFiniteNumber(Coalesce(entry.amount, entry.dataPoints))
    IN  IF direct.defined THEN direct ELSE toFiniteNumber("undefined")

\* A food record as far as the server looks at it: its identifier (0: none
\* that extractFdcId can read), its dataType, the macro keys for which
\* collectNutrients finds an amount in it, and its entry for the micronutrient.
FoodRecords == [fdcId : FdcIds \cup {0}, dataType : {"Foundation", "Branded"},
                has : SUBSET NutrientKeys, iron : {NoEntry}]

\* no record
NoFood == [fdcId |-> 0, dataType |-> "none", has |-> {}, iron |-> NoEntry]

\* extractFdcId(food): 0 stands for undefined
extractFdcId(food) == food.fdcId

\* the sequences over S of length at most n
SeqUpTo(S, n) == UNION { [1 .. k -> S] : k \in 0 .. n }

\* the elements of a sequence
Range(seq) == { seq[i] : i \in 1 .. Len(seq) }

\* What the request behind getFoods ends with: an error thrown by the
\* transport once its retries are over, or a parsed body: an array of
\* records, an object {foods: [...]}, the empty object, or anything else.
BulkReplies(foods, errors) ==
    [kind : {"error"}, error : errors, foods : {<<>>}]
        \cup [kind : {"array", "wrapped"}, error : {NoError}, foods : SeqUpTo(foods, MaxBatchLen)]
        \cup [kind : {"empty", "other"}, error : {NoError}, foods : {<<>>}]

UnexpectedFormat == FoodDataCentralError("Unexpected USDA bulk foods response format", 0, FALSE)

\* normalizeBulkFoodsResponse(response); a body with an error object never
\* gets here, sendOnce has thrown it
normalizeBulkFoodsResponse(reply) ==
    IF reply.kind = "error" THEN [ok |-> FALSE, foods |-> <<>>, error |-> reply.error]
    ELSE IF reply.kind \in {"array", "wrapped"}
    THEN [ok |-> TRUE, foods |-> reply.foods, error |-> NoError]
    ELSE IF reply.kind = "empty" THEN [ok |-> TRUE, foods |-> <<>>, error |-> NoError]
    ELSE [ok |-> FALSE, foods |-> <<>>, error |-> UnexpectedFormat]

\* the error getFood throws for an empty batch
NotFound == FoodDataCentralError("FDC ID not found", 404, FALSE)

\* FoodDataCentralClient.getFood(fdcId, options), given what its getFoods
\* request ended with
getFood(fdcId, reply) ==
    LET batch == normalizeBulkFoodsResponse(reply)
    IN  IF ~batch.ok THEN [ok |-> FALSE, food |-> NoFood, error |-> batch.error]
        ELSE IF batch.foods = <<>> THEN [ok |-> FALSE, food |-> NoFood, error |-> NotFound]
        ELSE [ok |-> TRUE, food |-> batch.foods[1], error |-> NoError]

\* aliasInfo of a result that needed no alias (undefined)
NoAliasInfo == [requestedId |-> 0, alias |-> NoAlias]

\* no tool call is being handled
NoTask == [tool |-> "none", fdcIds |-> <<>>, format |-> "undefined", nutrients |-> {},
           keys |-> {}]

\* no response handed back yet
NoResponse ==
    [previews |-> <<>>, includeRaw |-> FALSE, foods |-> <<>>, aliasNotes |-> <<>>,
     didNotReturn |-> <<>>, unresolvedCount |-> 0, dryRun |-> FALSE]

\* the awaited server function has not settled
NoOutcome ==
    [done |-> FALSE, ok |-> FALSE, food |-> NoFood, resolvedFdcId |-> 0,
     aliasInfo |-> NoAliasInfo, error |-> NoError,
     foods |-> <<>>, summaries |-> <<>>, notes |-> <<>>, matches |-> {},
     toolOk |-> FALSE, missing |-> {}, values |-> <<>>, named |-> {}, portions |-> 0,
     response |-> NoResponse]

\* fetchFoodForNutrients has not started: index (counted from 1), aliasInfo
\* and lastResult (has: it is defined) as declared on lines 3675-3678
NoLoop ==
    [index |-> 1, aliasInfo |-> NoAliasInfo,
     lastResult |-> [has |-> FALSE, food |-> NoFood, matches |-> {}]]

\* the awaited server function threw error
Threw(error) == [NoOutcome EXCEPT !.done = TRUE, !.error = error]

\* fetchFoodWithAlias returned {food, resolvedFdcId, aliasInfo}
Fetched(food, resolvedFdcId, aliasInfo) ==
    [NoOutcome EXCEPT !.done = TRUE, !.ok = TRUE, !.food = food,
                      !.resolvedFdcId = resolvedFdcId, !.aliasInfo = aliasInfo]

\* ------------------------------------------------------------------------
\* Request limiter and retry loop
\* ------------------------------------------------------------------------

\* The ends of a fetch the callers of the limiter model meet, one of each
\* class the retry loop tells apart: a body that is returned, a failure that
\* is not retryable (404) and one that is (the timeout aborting the fetch).
LiveResponses ==
    { r \in Responses :
        \/ r.kind = "abort"
        \/ /\ r.kind = "http"
           /\ r.status \in {200, 404}
           /\ r.body = [form |-> "data", code |-> "none", status |-> 0] }

Max(a, b) == IF a >= b THEN a ELSE b
Min(a, b) == IF a <= b THEN a ELSE b

\* seq without the element x
Without(seq, x) == SelectSeq(seq, LAMBDA y : y # x)

\* no pure function has been applied outside a call yet
NoProbe ==
    [fn |-> "none",
     resp |-> [kind |-> "abort", status |-> 0,
               body |-> [form |-> "data", code |-> "none", status |-> 0]],
     error |-> NoError, n |-> 0, ok |-> FALSE, retry |-> FALSE]

Init ==
    /\ maxConcurrent \in 1 .. MaxConcurrentBound
    /\ minDelayMs = MinDelayTicks
    /\ maxRetries \in 0 .. MaxRetriesBound
    /\ active = 0
    /\ waiters = <<>>
    /\ elapsed = minDelayMs          \* lastDispatched = 0 and Date.now() is far from 0
    /\ pc = [c \in Callers |-> "idle"]
    /\ timer = [c \in Callers |-> 0]
    /\ attempt = [c \in Callers |-> 0]
    /\ lastError = [c \in Callers |-> NoError]
    /\ result = [c \in Callers |-> [ok |-> FALSE, error |-> NoError]]
    /\ sent = [c \in Callers |-> 0]
    /\ backoffs = [c \in Callers |-> 0]
    /\ seen = [c \in Callers |-> <<>>]
    /\ releases = [c \in Callers |-> 0]
    /\ order = <<>>
    /\ dispatchGap = minDelayMs
    /\ sinceSend = minDelayMs
    /\ probe = NoProbe
    /\ task = NoTask
    /\ spc = "idle"
    /\ upstream = <<>>
    /\ replies = <<>>
    /\ got = <<>>
    /\ lookups = <<>>
    /\ outcome = NoOutcome
    /\ loop = NoLoop
    /\ tried = <<>>

\* faulty variant: <= in place of <
HasCapacityInclusive ==
    active <= maxConcurrent

\* acquire, line 474: a slot is free
HasCapacity ==
    active < maxConcurrent

\* faulty variant: the spacing test is skipped
TooSoonNever == FALSE

\* acquire, line 477: the previous dispatch is too recent
TooSoon == elapsed < minDelayMs

\* faulty variant: release forgets to decrement
ReleasedActiveKept == active

\* release, line 494
ReleasedActive == Max(0, active - 1)

\* acquire, lines 482-484, then schedule calls operation(): sendWithRetries
\* starts with attempt = 0 and makes its first sendOnce call
Dispatch(c) ==
    /\ active' = active + 1
    /\ dispatchGap' = elapsed
    /\ elapsed' = 0
    /\ pc' = [pc EXCEPT ![c] = "sending"]
    /\ timer' = [timer EXCEPT ![c] = 0]
    /\ attempt' = [attempt EXCEPT ![c] = 0]
    /\ lastError' = [lastError EXCEPT ![c] = NoError]
    /\ sent' = [sent EXCEPT ![c] = 1]
    /\ order' = Without(order, c)
    /\ seen' = [seen EXCEPT ![c] = <<>>]
    /\ sinceSend' = 0
    /\ UNCHANGED <<waiters, result, backoffs, releases>>

\* acquire, line 478: await delay(minDelayMs - elapsed)
Sleep(c) ==
    /\ pc' = [pc EXCEPT ![c] = "sleeping"]
    /\ timer' = [timer EXCEPT ![c] = minDelayMs - elapsed]
    /\ order' = IF \E i \in 1 .. Len(order) : order[i] = c THEN order ELSE Append(order, c)
    /\ UNCHANGED <<limiterVars, attempt, lastError, result, sent, backoffs, seen,
                   releases, dispatchGap, sinceSend>>

\* acquire, lines 487-489: park on the wait queue
Park(c) ==
    /\ pc' = [pc EXCEPT ![c] = "parked"]
    /\ waiters' = Append(waiters, c)
    /\ order' = IF \E i \in 1 .. Len(order) : order[i] = c THEN order ELSE Append(order, c)
    /\ UNCHANGED <<active, elapsed, timer, attempt, lastError, result, sent, backoffs,
                   seen, releases, dispatchGap, sinceSend>>

\* one pass of the loop of acquire, from line 473 to its next await or return
AcquireStep(c) ==
    IF HasCapacity
    THEN IF TooSoon THEN Sleep(c) ELSE Dispatch(c)
    ELSE Park(c)

\* release resolves the head waiter's promise (line 497); the waiter's
\* continuation is then a queued microtask, which the event loop runs before
\* any timer or I/O callback and before the continuation of the caller whose
\* call has just settled.  Those wait until no such continuation is pending.
NoContinuationPending == \A c \in Callers : pc[c] # "woken"

\* a caller calls schedule(): acquire runs up to its first await
Schedule(c) ==
    /\ pc[c] = "idle"
    /\ NoContinuationPending
    /\ AcquireStep(c)
    /\ UNCHANGED <<configVars, probe, serverVars>>

\* the delay() of line 478 fires (never early, possibly late) and the loop
\* of acquire runs again
TimerFire(c) ==
    /\ pc[c] = "sleeping"
    /\ timer[c] = 0
    /\ NoContinuationPending
    /\ AcquireStep(c)
    /\ UNCHANGED <<configVars, probe, serverVars>>

\* the promise of line 487 was resolved by release: the loop of acquire runs again
Resume(c) ==
    /\ pc[c] = "woken"
    /\ AcquireStep(c)
    /\ UNCHANGED <<configVars, probe, serverVars>>

\* schedule, lines 467-469: the operation has returned or thrown; release
\* (lines 493-499) runs and schedule settles with res
Settle(c, res) ==
    /\ active' = ReleasedActive
    /\ releases' = [releases EXCEPT ![c] = @ + 1]
    /\ result' = [result EXCEPT ![c] = res]
    /\ IF waiters # <<>>
       THEN /\ waiters' = Tail(waiters)
            /\ pc' = [pc EXCEPT ![c] = "settled", ![Head(waiters)] = "woken"]
       ELSE /\ waiters' = waiters
            /\ pc' = [pc EXCEPT ![c] = "settled"]

\* sendWithRetries, lines 648-663: the sendOnce call in flight ends with resp
Respond(c, resp) ==
    /\ pc[c] = "sending"
    /\ NoContinuationPending
    /\ LET out == sendOnce(resp)
       IN  /\ seen' = [seen EXCEPT ![c] = Append(@, [resp |-> resp, error |-> out.error])]
           /\ IF out.ok
              THEN /\ Settle(c, [ok |-> TRUE, error |-> NoError])
                   /\ UNCHANGED <<lastError, backoffs>>
              ELSE /\ lastError' = [lastError EXCEPT ![c] = out.error]
                   /\ IF ~shouldRetry(out.error, attempt[c])
                      THEN /\ Settle(c, [ok |-> FALSE, error |-> out.error])
                           /\ UNCHANGED backoffs
                      ELSE /\ pc' = [pc EXCEPT ![c] = "backoff"]
                           /\ backoffs' = [backoffs EXCEPT ![c] = @ + 1]
                           /\ UNCHANGED <<active, waiters, result, releases>>
    /\ UNCHANGED <<configVars, elapsed, timer, attempt, sent, order, dispatchGap, sinceSend,
                   probe, serverVars>>

\* sendWithRetries, lines 662-663 and 647: the backoff delay is over,
\* attempt += 1 and the loop condition is tested again
BackoffOver(c) ==
    /\ pc[c] = "backoff"
    /\ NoContinuationPending
    /\ attempt' = [attempt EXCEPT ![c] = @ + 1]
    /\ IF attempt[c] + 1 <= maxRetries
       THEN /\ pc' = [pc EXCEPT ![c] = "sending"]
            /\ sent' = [sent EXCEPT ![c] = @ + 1]
            /\ sinceSend' = 0
            /\ UNCHANGED <<active, waiters, result, releases>>
       ELSE /\ Settle(c, [ok |-> FALSE, error |-> lastError[c]])
            /\ UNCHANGED <<sent, sinceSend>>
    /\ UNCHANGED <<configVars, elapsed, timer, lastError, backoffs, seen, order,
                   dispatchGap, probe, serverVars>>

\* the caller of schedule() takes the settled result; it may call again
Return(c) ==
    /\ pc[c] = "settled"
    /\ NoContinuationPending
    /\ pc' = [pc EXCEPT ![c] = "idle"]
    /\ attempt' = [attempt EXCEPT ![c] = 0]
    /\ lastError' = [lastError EXCEPT ![c] = NoError]
    /\ result' = [result EXCEPT ![c] = [ok |-> FALSE, error |-> NoError]]
    /\ sent' = [sent EXCEPT ![c] = 0]
    /\ backoffs' = [backoffs EXCEPT ![c] = 0]
    /\ seen' = [seen EXCEPT ![c] = <<>>]
    /\ releases' = [releases EXCEPT ![c] = 0]
    /\ UNCHANGED <<configVars, limiterVars, timer, order, dispatchGap, sinceSend, probe,
                   serverVars>>

\* one tick of the clock passes
Tick ==
    /\ \/ elapsed < minDelayMs
       \/ sinceSend < minDelayMs
       \/ \E c \in Callers : timer[c] > 0
    /\ elapsed' = Min(elapsed + 1, minDelayMs)
    /\ sinceSend' = Min(sinceSend + 1, minDelayMs)
    /\ timer' = [c \in Callers |-> Max(timer[c] - 1, 0)]
    /\ UNCHANGED <<configVars, active, waiters, pc, attempt, lastError, result, sent,
                   backoffs, seen, releases, order, dispatchGap, probe, serverVars>>

Next ==
    \/ \E c \in Callers : Schedule(c)
    \/ \E c \in Callers : TimerFire(c)
    \/ \E c \in Callers : Resume(c)
    \/ \E c \in Callers, resp \in LiveResponses : Respond(c, resp)
    \/ \E c \in Callers : BackoffOver(c)
    \/ \E c \in Callers : Return(c)
    \/ Tick

Spec == Init /\ [][Next]_vars

\* The same program under the scheduling the event loop provides: time
\* passes, a due timer and a queued continuation run, every fetch ends (by a
\* response or by its timeout), every backoff delay ends, and the caller of a
\* settled call runs.  Nothing obliges a caller to call schedule().
FairSpec ==
    /\ Spec
    /\ WF_vars(Tick)
    /\ \A c \in Callers :
          /\ WF_vars(TimerFire(c))
          /\ WF_vars(Resume(c))
          /\ WF_vars(\E resp \in LiveResponses : Respond(c, resp))
          /\ WF_vars(BackoffOver(c))
          /\ WF_vars(Return(c))

\* ------------------------------------------------------------------------
\* One caller, every class of response: the retry loop on its own
\* ------------------------------------------------------------------------

DataBody == [form |-> "data", code |-> "none", status |-> 0]

\* the ends of a fetch the single caller meets
RetryResponses ==
    { r \in Responses :
        \/ r.kind \in {"abort", "network"}
        \/ /\ r.kind = "http"
           /\ r.status \in {404, 429, 503}
           /\ r.body = DataBody
        \/ /\ r.kind = "http"
           /\ r.status = 200
           /\ \/ r.body.form \in {"data", "malformed", "aborted"}
              \/ /\ r.body.form = "envelope"
                 /\ r.body.code \in {"none", "OVER_RATE_LIMIT"}
                 /\ r.body.status \in {0, 503} }

TheCaller == CHOOSE c \in Callers : \A d \in Callers : c <= d

RetryNext ==
    \/ Schedule(TheCaller)
    \/ TimerFire(TheCaller)
    \/ \E resp \in RetryResponses : Respond(TheCaller, resp)
    \/ BackoffOver(TheCaller)
    \/ Return(TheCaller)
    \/ Tick

RetrySpec == Init /\ [][RetryNext]_vars

\* ------------------------------------------------------------------------
\* The pure functions of the transport, applied to every input
\* ------------------------------------------------------------------------

\* every value sendOnce can throw, and one that is no FoodDataCentralError
ThrownErrors ==
    { sendOnce(r).error : r \in { q \in Responses : ~sendOnce(q).ok } } \cup {ForeignError}

\* attempt indexes shouldRetry is applied to
AttemptIndexes == 0 .. MaxRetriesBound + 1

\* sendOnce is applied to the end resp of a fetch
Classify(resp) ==
    /\ probe = NoProbe
    /\ probe' = [fn |-> "sendOnce", resp |-> resp, error |-> sendOnce(resp).error,
                 n |-> 0, ok |-> sendOnce(resp).ok, retry |-> FALSE]
    /\ UNCHANGED <<configVars, limiterVars, callVars, historyVars, serverVars>>

\* shouldRetry is applied to a thrown value and an attempt index
Decide(error, n) ==
    /\ probe = NoProbe
    /\ probe' = [fn |-> "shouldRetry", resp |-> NoProbe.resp, error |-> error,
                 n |-> n, ok |-> FALSE, retry |-> shouldRetry(error, n)]
    /\ UNCHANGED <<configVars, limiterVars, callVars, historyVars, serverVars>>

\* the outcome has been looked at; the next application starts afresh
Forget ==
    /\ probe # NoProbe
    /\ probe' = NoProbe
    /\ UNCHANGED <<configVars, limiterVars, callVars, historyVars, serverVars>>

TransportNext ==
    \/ \E resp \in Responses : Classify(resp)
    \/ \E error \in ThrownErrors, n \in AttemptIndexes : Decide(error, n)
    \/ Forget

TransportSpec == Init /\ [][TransportNext]_vars

\* ------------------------------------------------------------------------
\* Fetching one record, with alias substitution (fetchFoodWithAlias)
\* ------------------------------------------------------------------------

\* the errors a getFoods request ends with in the server models: the
\* transport's error for a 404, a 400, a 503 after the last retry, a timeout
RequestErrors ==
    { FoodDataCentralError("http", 404, FALSE),
      FoodDataCentralError("http", 400, FALSE),
      FoodDataCentralError("http", 503, TRUE),
      TimedOut }

\* the nutrient-id filters a get_food call may carry ({}: none given)
NutrientFilters == { {}, NutrientIds("protein") }

\* the records and replies the model of get_food meets
AliasFoods == { f \in FoodRecords : f.dataType = "Foundation" /\ f.has = {} }
AliasReplies == BulkReplies(AliasFoods, RequestErrors)

\* every variable outside the server's tool call
clientVars == <<configVars, limiterVars, callVars, historyVars, probe>>

\* the server builds its one client when it starts; no tool call is running
ServerInit ==
    /\ Init
    /\ maxConcurrent = MaxConcurrentBound
    /\ maxRetries = MaxRetriesBound

\* the core macro keys (of the keys the model tells apart)
macroNutrientKeys == {"protein", "fat"}

\* the tools that resolve nutrients, with the keys they ask for: get_macros
\* and a tool registered by registerSingleNutrientTool
NutrientTools ==
    { [tool |-> "get_macros", keys |-> macroNutrientKeys],
      [tool |-> "get_protein", keys |-> {"protein"}] }

\* fetchFoodForNutrients, lines 3636-3641: the ids of the requested keys in
\* the order the Set nutrientIds receives them (the tools list protein before
\* fat and the macros before the micronutrients; no id belongs to two keys)
nutrientIdsOf(keys) ==
    (IF "protein" \in keys THEN <<1003, 203>> ELSE <<>>)
        \o (IF "fat" \in keys THEN <<1004, 204, 1085>> ELSE <<>>)
        \o (IF MicroKey \in keys THEN <<1089, 303>> ELSE <<>>)

\* faulty variant: the array is left in the order it has
sortAscendingNot(ids) == ids

\* [...ids].sort((a, b) => a - b)
RECURSIVE sortAscending(_)
sortAscending(ids) ==
    IF ids = <<>>
    THEN <<>>
    ELSE LET least == CHOOSE i \in 1 .. Len(ids) :
                          /\ \A j \in 1 .. Len(ids) : ids[i] <= ids[j]
                          /\ \A j \in 1 .. i - 1 : ids[j] # ids[i]
         IN  <<ids[least]>>
                 \o sortAscending([j \in 1 .. Len(ids) - 1 |->
                                       IF j < least THEN ids[j] ELSE ids[j + 1]])

\* buildNutrientRequestSignature(options): the format and the sorted ids that
\* the returned string joins
buildNutrientRequestSignature(options) ==
    [format |-> IF options.format = "undefined" THEN "default" ELSE options.format,
     nutrientIds |-> sortAscending(options.nutrients)]

\* addAttempt(options), lines 3645-3658: options whose signature is new are
\* appended (nutrients <<>>: the attempt has no filter)
addAttempt(attempts, options) ==
    IF \E i \in 1 .. Len(attempts) :
          buildNutrientRequestSignature(attempts[i]) = buildNutrientRequestSignature(options)
    THEN attempts
    ELSE Append(attempts, options)

\* fetchFoodForNutrients, lines 3636-3673: the array attempts built for keys
AttemptList(keys) ==
    LET nutrientIds == nutrientIdsOf(keys)
        filtered == IF nutrientIds # <<>>
                    THEN addAttempt(<<>>, [format |-> "abridged",
                                           nutrients |-> sortAscending(nutrientIds)])
                    ELSE <<>>
        withFull == addAttempt(filtered, [format |-> "full", nutrients |-> <<>>])
        withAbridged == addAttempt(withFull, [format |-> "abridged", nutrients |-> <<>>])
    IN  IF withAbridged = <<>>
        THEN addAttempt(withAbridged, [format |-> "abridged", nutrients |-> <<>>])
        ELSE withAbridged

\* the attempts for keys, each with its filter as the set of ids it lists
AttemptsFor(keys) ==
    LET attempts == AttemptList(keys)
    IN  [i \in 1 .. Len(attempts) |->
            [format |-> attempts[i].format, nutrients |-> Range(attempts[i].nutrients)]]

\* faulty variant: every requested key is reported matched
collectNutrientsAll(food, keys) == keys

\* collectNutrients(food, keys): the requested keys the record has an amount for
collectNutrients(food, keys) ==
    (food.has \cup (IF resolveNutrientAmount(food.iron).defined THEN {MicroKey} ELSE {}))
        \cap keys

\* collectNutrients, lines 3558-3561: results[key].value, the amount of the
\* matching entry (the amounts of the macro entries are not told apart: 1)
matchValue(food, key) ==
    IF key = MicroKey THEN resolveNutrientAmount(food.iron).value ELSE 1

\* matches[key] for the match map collectNutrients built from food
MatchOf(food, matches, key) ==
    IF key \in matches THEN [defined |-> TRUE, value |-> matchValue(food, key)]
    ELSE Undefined

\* buildNutrientValue(key, match): valuePer100g is match.value when there is
\* a match and is left out (undefined) otherwise
buildNutrientValue(key, match) ==
    [key |-> key,
     valuePer100g |-> IF match.defined
                      THEN [defined |-> TRUE, value |-> match.value]
                      ELSE Undefined]

\* faulty variant: escalation never stops early
hasAllNutrientMatchesNever(matches, keys) == FALSE

\* hasAllNutrientMatches(matches, keys)
hasAllNutrientMatches(matches, keys) == \A key \in keys : key \in matches

\* faulty variant: a 400 is skipped whether or not the attempt has a filter
SkipAttemptAny400(options, error) == error.fdc /\ error.status = 400

\* fetchFoodForNutrients, lines 3685-3690: the catch block goes on to the
\* next attempt
SkipAttempt(options, error) ==
    options.nutrients # {} /\ error.fdc /\ error.status = 400

\* fetchFoodForNutrients, line 3724
UnableToFetch ==
    [fdc |-> FALSE, message |-> "Unable to fetch nutrient data", status |-> 0,
     retryable |-> FALSE]

\* get_macros handler, lines 2496-2498
FoundationOmits ==
    [fdc |-> FALSE, message |-> "Foundation entry omits macros", status |-> 0,
     retryable |-> FALSE]

\* get_macros handler, lines 2485-2487: the record's dataType, trimmed and
\* lower-cased when it is a string ("undefined" otherwise)
normalizedDataType(food) ==
    IF food.dataType \in {"Foundation", " FOUNDATION "} THEN "foundation"
    ELSE IF food.dataType = "Branded" THEN "branded"
    ELSE "undefined"

\* faulty variant: the dataType is compared as it is written
IsFoundationExact(food) == food.dataType = "Foundation"

\* get_macros handler, line 2493: dataType === 'foundation'
IsFoundation(food) == normalizedDataType(food) = "foundation"

\* the micronutrient keys (of the keys the model tells apart)
microNutrientKeys == {MicroKey}
macroMicronutrientKeys == macroNutrientKeys \cup microNutrientKeys

\* the tools that list micronutrients, with the keys they ask for
MicroTools ==
    { [tool |-> "get_micros", keys |-> microNutrientKeys],
      [tool |-> "get_macro_micros", keys |-> macroMicronutrientKeys] }

\* the tools whose handler throws for a Foundation record with a missing macro
\* (get_macros, lines 2493-2499; get_macro_micros, lines 2630-2636)
FoundationPolicyTools == {"get_macros", "get_macro_micros"}

\* macros_for_portion, with the keys it asks for
PortionTools == { [tool |-> "macros_for_portion", keys |-> macroNutrientKeys] }

\* the tool handler is one that resolves nutrients
ResolvingNutrients ==
    task.tool \in { t.tool : t \in NutrientTools \cup MicroTools \cup PortionTools }

\* the arguments of the fetchFoodWithAlias call in progress
FetchArgs ==
    IF ResolvingNutrients
    THEN [fdcId |-> task.fdcIds[1],
          format |-> AttemptsFor(task.keys)[loop.index].format,
          nutrients |-> AttemptsFor(task.keys)[loop.index].nutrients]
    ELSE [fdcId |-> task.fdcIds[1], format |-> task.format, nutrients |-> task.nutrients]

\* client.getFood(fdcId, options) up to its await: the getFoods request is issued
IssueGetFood(fdcId) ==
    upstream' = Append(upstream, [fdcIds |-> <<fdcId>>, format |-> FetchArgs.format,
                                  nutrients |-> FetchArgs.nutrients])

\* faulty variant: the alias table is consulted after any failure
AliasConsultedAnyError(error) == TRUE

\* fetchFoodWithAlias, line 3913: the catch block looks for an alias
AliasConsulted(error) == error.fdc /\ error.status = 404

\* faulty variant: a fresh not-found error is thrown in place of the caught one
RethrownAsNotFound(error) == NotFound

\* fetchFoodWithAlias, line 3929: throw error
Rethrown(error) == error

\* fetchFoodForNutrients returns {food, matches, aliasInfo} and the handler
\* of the tool goes on: it builds the nutrient values; get_macros (lines
\* 2485-2499) and get_macro_micros (lines 2621-2636) throw for a Foundation
\* record with a missing macro; get_micros (lines 2555-2593) and the
\* single-nutrient tools (lines 3796-3823) return with a note;
\* macros_for_portion (line 2853) goes on to its own fetch of the record
ResolutionReturns(food, matches, aliasInfo) ==
    LET nutrientValues == [key \in task.keys |->
                              buildNutrientValue(key, MatchOf(food, matches, key))]
        missing == { key \in task.keys : ~nutrientValues[key].valuePer100g.defined }
        missingMacros == missing \cap macroNutrientKeys
        resolved == [NoOutcome EXCEPT !.done = TRUE, !.ok = TRUE, !.food = food,
                                      !.matches = matches, !.aliasInfo = aliasInfo,
                                      !.missing = missing, !.values = nutrientValues]
    IN  /\ outcome' = IF task.tool \in { t.tool : t \in PortionTools }
                      THEN resolved
                      ELSE IF /\ task.tool \in FoundationPolicyTools
                              /\ IsFoundation(food)
                              /\ missingMacros # {}
                      THEN [resolved EXCEPT !.error = FoundationOmits,
                                            !.named = missingMacros]
                      ELSE [resolved EXCEPT !.toolOk = TRUE]
        /\ spc' = IF task.tool \in { t.tool : t \in PortionTools }
                  THEN "portions"
                  ELSE "done"

\* fetchFoodForNutrients, line 3678 and lines 3716-3724: index += 1, the loop
\* test, the next fetchFoodWithAlias up to its await, or the code after the loop
NextAttempt(locals) ==
    LET attempts == AttemptsFor(task.keys)
        next == locals.index + 1
    IN  /\ loop' = [locals EXCEPT !.index = next]
        /\ IF next <= Len(attempts)
           THEN /\ upstream' = Append(upstream, [fdcIds |-> <<task.fdcIds[1]>>,
                                                 format |-> attempts[next].format,
                                                 nutrients |-> attempts[next].nutrients])
                /\ spc' = "fetching"
                /\ UNCHANGED outcome
           ELSE /\ UNCHANGED upstream
                /\ IF locals.lastResult.has
                   THEN ResolutionReturns(locals.lastResult.food, locals.lastResult.matches,
                                          locals.aliasInfo)
                   ELSE /\ outcome' = Threw(UnableToFetch)
                        /\ spc' = "done"

\* fetchFoodForNutrients, lines 3681-3713: the fetchFoodWithAlias of the
\* current attempt has returned or thrown res
AttemptSettles(res) ==
    LET attempts == AttemptsFor(task.keys)
        options == attempts[loop.index]
        matches == collectNutrients(res.food, task.keys)
        aliasInfo == IF loop.aliasInfo = NoAliasInfo /\ res.aliasInfo # NoAliasInfo
                     THEN res.aliasInfo
                     ELSE loop.aliasInfo
        isLastAttempt == loop.index = Len(attempts)
        locals == [loop EXCEPT !.aliasInfo = aliasInfo,
                               !.lastResult = [has |-> TRUE, food |-> res.food,
                                               matches |-> matches]]
    IN  /\ tried' = Append(tried, [index |-> loop.index, options |-> options, res |-> res])
        /\ IF ~res.ok
           THEN IF SkipAttempt(options, res.error)
                THEN NextAttempt(loop)
                ELSE /\ outcome' = Threw(res.error)
                     /\ spc' = "done"
                     /\ UNCHANGED <<upstream, loop>>
           ELSE IF hasAllNutrientMatches(matches, task.keys) \/ isLastAttempt
                THEN /\ ResolutionReturns(res.food, matches, aliasInfo)
                     /\ loop' = locals
                     /\ UNCHANGED upstream
                ELSE NextAttempt(locals)

\* fetchFoodWithAlias returns or throws: its caller's continuation runs
FetchSettles(res) ==
    IF ResolvingNutrients
    THEN AttemptSettles(res)
    ELSE /\ outcome' = res
         /\ spc' = "done"
         /\ UNCHANGED <<upstream, loop, tried>>

\* the get_food tool is called: fetchFoodWithAlias runs up to the await of
\* its first getFood
GetFoodTool(fdcId, format, nutrients) ==
    /\ spc = "idle"
    /\ task' = [tool |-> "get_food", fdcIds |-> <<fdcId>>, format |-> format,
                nutrients |-> nutrients, keys |-> {}]
    /\ upstream' = <<[fdcIds |-> <<fdcId>>, format |-> format, nutrients |-> nutrients]>>
    /\ spc' = "fetching"
    /\ UNCHANGED <<replies, got, lookups, outcome, loop, tried, clientVars>>

\* fetchFoodWithAlias, lines 3910-3930: the getFood of the requested id ends
FetchReplies(reply) ==
    /\ spc = "fetching"
    /\ LET res == getFood(FetchArgs.fdcId, reply)
           alias == resolveFdcAlias(FetchArgs.fdcId)
       IN  /\ replies' = Append(replies, reply)
           /\ got' = Append(got, res)
           /\ IF res.ok
              THEN /\ FetchSettles(Fetched(res.food, FetchArgs.fdcId, NoAliasInfo))
                   /\ UNCHANGED lookups
              ELSE IF AliasConsulted(res.error)
              THEN /\ lookups' = Append(lookups, FetchArgs.fdcId)
                   /\ IF alias # NoAlias
                      THEN /\ IssueGetFood(alias.replacementId)
                           /\ spc' = "replacing"
                           /\ UNCHANGED <<outcome, loop, tried>>
                      ELSE FetchSettles(Threw(Rethrown(res.error)))
              ELSE /\ FetchSettles(Threw(Rethrown(res.error)))
                   /\ UNCHANGED lookups
    /\ UNCHANGED <<task, clientVars>>

\* fetchFoodWithAlias, lines 3917-3926: the getFood of the replacement id ends
ReplacementReplies(reply) ==
    /\ spc = "replacing"
    /\ LET alias == resolveFdcAlias(FetchArgs.fdcId)
           res == getFood(alias.replacementId, reply)
       IN  /\ replies' = Append(replies, reply)
           /\ got' = Append(got, res)
           /\ IF res.ok
              THEN FetchSettles(Fetched(res.food, alias.replacementId,
                                        [requestedId |-> FetchArgs.fdcId, alias |-> alias]))
              ELSE FetchSettles(Threw(res.error))
    /\ UNCHANGED <<task, lookups, clientVars>>

\* the tool call is over; the server takes the next one
ToolReturns ==
    /\ spc = "done"
    /\ task' = NoTask
    /\ spc' = "idle"
    /\ upstream' = <<>>
    /\ replies' = <<>>
    /\ got' = <<>>
    /\ lookups' = <<>>
    /\ outcome' = NoOutcome
    /\ loop' = NoLoop
    /\ tried' = <<>>
    /\ UNCHANGED clientVars

AliasNext ==
    \/ \E fdcId \in FdcIds, format \in Formats, nutrients \in NutrientFilters :
          GetFoodTool(fdcId, format, nutrients)
    \/ \E reply \in AliasReplies : FetchReplies(reply)
    \/ \E reply \in AliasReplies : ReplacementReplies(reply)
    \/ ToolReturns

AliasSpec == ServerInit /\ [][AliasNext]_vars

\* ------------------------------------------------------------------------
\* Resolving nutrients (fetchFoodForNutrients and the tools built on it)
\* ------------------------------------------------------------------------

\* the identifiers the nutrient tools are called with: the retired one and
\* one the alias table does not know
ResolvedIds == {4053, 1000}

\* the identifier the request in flight asks for (0: none is in flight)
AskedNow == IF upstream = <<>> THEN 0 ELSE upstream[Len(upstream)].fdcIds[1]

\* What a request for fdcId ends with while nutrients are resolved: the
\* transport's error for a 404, a 400 or a 503, or a batch of one record of
\* that identifier, of either dataType, with amounts for any of the keys
NutrientReplies(fdcId) ==
    [kind : {"error"},
     error : { FoodDataCentralError("http", 404, FALSE),
               FoodDataCentralError("http", 400, FALSE),
               FoodDataCentralError("http", 503, TRUE) },
     foods : {<<>>}]
        \cup [kind : {"array"}, error : {NoError},
              foods : { <<f>> : f \in { g \in FoodRecords : g.fdcId = fdcId } }]

\* a nutrient tool is called: fetchFoodForNutrients builds its attempts and
\* runs up to the await of the first fetchFoodWithAlias
NutrientTool(tool, fdcId) ==
    /\ spc = "idle"
    /\ task' = [tool |-> tool.tool, fdcIds |-> <<fdcId>>, format |-> "undefined",
                nutrients |-> {}, keys |-> tool.keys]
    /\ loop' = NoLoop
    /\ upstream' = <<[fdcIds |-> <<fdcId>>,
                      format |-> AttemptsFor(tool.keys)[1].format,
                      nutrients |-> AttemptsFor(tool.keys)[1].nutrients]>>
    /\ spc' = "fetching"
    /\ UNCHANGED <<replies, got, lookups, outcome, tried, clientVars>>

NutrientNext ==
    \/ \E tool \in NutrientTools, fdcId \in ResolvedIds : NutrientTool(tool, fdcId)
    \/ \E reply \in NutrientReplies(AskedNow) : FetchReplies(reply)
    \/ \E reply \in NutrientReplies(AskedNow) : ReplacementReplies(reply)
    \/ ToolReturns

NutrientSpec == ServerInit /\ [][NutrientNext]_vars

\* ------------------------------------------------------------------------
\* Listing micronutrients (get_micros and get_macro_micros)
\* ------------------------------------------------------------------------

\* the records the micronutrient tools meet: of either dataType, with both
\* macros or none, with any entry for the micronutrient
MicroRecords ==
    [fdcId : {1000}, dataType : {"Foundation", "Branded"},
     has : {{}, macroNutrientKeys},
     iron : { e \in NutrientEntries :
                e.amount # "str0" /\ e.dataPoints \in {"undefined", "num0"} }]

\* what a request ends with while micronutrients are listed: the transport's
\* error for a 400 or a 503, or a batch of one record
MicroReplies ==
    [kind : {"error"},
     error : { FoodDataCentralError("http", 400, FALSE),
               FoodDataCentralError("http", 503, TRUE) },
     foods : {<<>>}]
        \cup [kind : {"array"}, error : {NoError}, foods : { <<f>> : f \in MicroRecords }]

MicroNext ==
    \/ \E tool \in MicroTools : NutrientTool(tool, 1000)
    \/ \E reply \in MicroReplies : FetchReplies(reply)
    \/ ToolReturns

MicroSpec == ServerInit /\ [][MicroNext]_vars

\* ------------------------------------------------------------------------
\* Two tool calls in flight (the handlers are async functions on one thread)
\* ------------------------------------------------------------------------

\* The locals of the handler that is running: task, the position spc and
\* what fetchFoodForNutrients and fetchFoodWithAlias declare (attempts,
\* aliasInfo, lastResult, index: lines 3643-3678), with the call's histories.
RunningCall ==
    [fn |-> "parked", task |-> task, spc |-> spc, upstream |-> upstream,
     replies |-> replies, got |-> got, lookups |-> lookups, outcome |-> outcome,
     loop |-> loop, tried |-> tried]

\* the locals of a handler that has not been called
IdleCall ==
    [fn |-> "parked", task |-> NoTask, spc |-> "idle", upstream |-> <<>>,
     replies |-> <<>>, got |-> <<>>, lookups |-> <<>>, outcome |-> NoOutcome,
     loop |-> NoLoop, tried |-> <<>>]

\* the locals of the other handler, suspended at an await (or not called)
ParkedCall == IF probe.fn = "parked" THEN probe ELSE IdleCall

\* faulty variant: aliasInfo, lastResult and index are module-level
\* variables, so the handler that resumes finds what the other left
ResumedLoopShared(parked, running) == running.loop

\* fetchFoodForNutrients, lines 3676-3678: let aliasInfo, let lastResult and
\* let index are declared in the function body, so the handler that resumes
\* finds its own
ResumedLoop(parked, running) == parked.loop

\* The event loop resumes the other handler at its await; the running one
\* stays suspended at its own.
Switch ==
    /\ probe' = IF RunningCall = IdleCall THEN NoProbe ELSE RunningCall
    /\ task' = ParkedCall.task
    /\ spc' = ParkedCall.spc
    /\ upstream' = ParkedCall.upstream
    /\ replies' = ParkedCall.replies
    /\ got' = ParkedCall.got
    /\ lookups' = ParkedCall.lookups
    /\ outcome' = ParkedCall.outcome
    /\ loop' = ResumedLoop(ParkedCall, RunningCall)
    /\ tried' = ParkedCall.tried
    /\ UNCHANGED <<configVars, limiterVars, callVars, historyVars>>

\* What a request for fdcId ends with while two calls are in flight: the
\* transport's error for a 404, a 400 or a 503, or a Branded record of that
\* identifier with amounts for both macros or for protein only
ConcurrentReplies(fdcId) ==
    [kind : {"error"},
     error : { FoodDataCentralError("http", 404, FALSE),
               FoodDataCentralError("http", 400, FALSE),
               FoodDataCentralError("http", 503, TRUE) },
     foods : {<<>>}]
        \cup [kind : {"array"}, error : {NoError},
              foods : { <<f>> : f \in { r \in FoodRecords :
                                          /\ r.fdcId = fdcId
                                          /\ r.dataType = "Branded"
                                          /\ r.has \in {{"protein"}, macroNutrientKeys}
                                          /\ r.iron = NoEntry } }]

ConcurrentNext ==
    \/ \E fdcId \in ResolvedIds :
          NutrientTool([tool |-> "get_macros", keys |-> macroNutrientKeys], fdcId)
    \/ \E reply \in ConcurrentReplies(AskedNow) : FetchReplies(reply)
    \/ \E reply \in ConcurrentReplies(AskedNow) : ReplacementReplies(reply)
    \/ ToolReturns
    \/ Switch

ConcurrentSpec == ServerInit /\ [][ConcurrentNext]_vars

\* ------------------------------------------------------------------------
\* The Foundation policy (get_macros, get_macro_micros, macros_for_portion)
\* ------------------------------------------------------------------------

\* the records the policy meets: the dataType in several spellings or not a
\* string, with amounts for both macros, for protein or for none
PolicyRecords ==
    [fdcId : {1000}, dataType : {"Foundation", " FOUNDATION ", "Branded", "undefined"},
     has : {{}, {"protein"}, macroNutrientKeys}, iron : {NoEntry}]

\* what a request ends with: the transport's error for a 400 or a 503, or a
\* batch of one record
PolicyReplies ==
    [kind : {"error"},
     error : { FoodDataCentralError("http", 400, FALSE),
               FoodDataCentralError("http", 503, TRUE) },
     foods : {<<>>}]
        \cup [kind : {"array"}, error : {NoError}, foods : { <<f>> : f \in PolicyRecords }]

\* How macros_for_portion is called: with portionIndex 0 or 1, with both
\* portionId and portionIndex, or with neither.
PortionInputs == {"index0", "index1", "both", "neither"}

\* macros_for_portion, line 2850, lines 2861-2866 and lines 2889-2894
PortionError(message) ==
    [fdc |-> FALSE, message |-> message, status |-> 0, retryable |-> FALSE]

\* macros_for_portion is called (lines 2846-2852): the input is checked and
\* fetchFoodForNutrients runs up to the await of its first fetchFoodWithAlias
PortionTool(fdcId, portion) ==
    /\ spc = "idle"
    /\ task' = [tool |-> "macros_for_portion", fdcIds |-> <<fdcId>>, format |-> "undefined",
                nutrients |-> {}, keys |-> macroNutrientKeys, portion |-> portion]
    /\ loop' = NoLoop
    /\ IF portion \in {"both", "neither"}
       THEN /\ outcome' = Threw(PortionError("Provide exactly one of portionId or portionIndex"))
            /\ spc' = "done"
            /\ UNCHANGED upstream
       ELSE /\ upstream' = <<[fdcIds |-> <<fdcId>>,
                              format |-> AttemptsFor(macroNutrientKeys)[1].format,
                              nutrients |-> AttemptsFor(macroNutrientKeys)[1].nutrients]>>
            /\ spc' = "fetching"
            /\ UNCHANGED outcome
    /\ UNCHANGED <<replies, got, lookups, tried, clientVars>>

\* macros_for_portion, lines 2853-2950 and on: fetchFoodForNutrients has
\* returned; the record is fetched in full format (its identifier has no
\* alias), its foodPortions are looked at, then the policy is applied to the
\* matches of the resolution and the dataType of this record
PortionsSettle(reply, foodPortions) ==
    /\ spc = "portions"
    /\ resolveFdcAlias(task.fdcIds[1]) = NoAlias
    /\ LET res == getFood(task.fdcIds[1], reply)
           portionIndex == IF task.portion = "index0" THEN 0 ELSE 1
           missingLabels == macroNutrientKeys \ outcome.matches
       IN  /\ upstream' = Append(upstream, [fdcIds |-> <<task.fdcIds[1]>>,
                                            format |-> "full", nutrients |-> {}])
           /\ replies' = Append(replies, reply)
           /\ got' = Append(got, res)
           /\ lookups' = IF ~res.ok /\ AliasConsulted(res.error)
                         THEN Append(lookups, task.fdcIds[1])
                         ELSE lookups
           /\ outcome' =
                 IF ~res.ok
                 THEN [outcome EXCEPT !.error = Rethrown(res.error)]
                 ELSE IF foodPortions = 0
                 THEN [outcome EXCEPT !.error = PortionError("no foodPortions data")]
                 ELSE IF portionIndex >= foodPortions
                 THEN [outcome EXCEPT !.error = PortionError("portionIndex is out of range"),
                                      !.portions = foodPortions]
                 ELSE IF IsFoundation(res.food) /\ missingLabels # {}
                 THEN [outcome EXCEPT !.error = FoundationOmits, !.named = missingLabels,
                                      !.portions = foodPortions]
                 ELSE [outcome EXCEPT !.toolOk = TRUE, !.missing = missingLabels,
                                      !.portions = foodPortions]
    /\ spc' = "done"
    /\ UNCHANGED <<task, loop, tried, clientVars>>

PolicyNext ==
    \/ NutrientTool([tool |-> "get_macros", keys |-> macroNutrientKeys], 1000)
    \/ NutrientTool([tool |-> "get_macro_micros", keys |-> macroMicronutrientKeys], 1000)
    \/ \E portion \in PortionInputs : PortionTool(1000, portion)
    \/ \E reply \in PolicyReplies : FetchReplies(reply)
    \/ \E reply \in PolicyReplies, foodPortions \in 0 .. 1 : PortionsSettle(reply, foodPortions)
    \/ ToolReturns

PolicySpec == ServerInit /\ [][PolicyNext]_vars

\* ------------------------------------------------------------------------
\* Fetching many records, with alias substitution (the get-foods tool)
\* ------------------------------------------------------------------------

\* how many identifiers a get-foods call names at most
MaxRequested == 2

\* the fdcIds inputs of get-foods: at least one identifier, repeats allowed
RequestedLists == SeqUpTo(FdcIds, MaxRequested) \ {<<>>}

\* the format and nutrient filter a get-foods call may carry
\* and the previewOnly, includeRaw, estimateOnly ("undefined": not given) and
\* sampleSize (0: not given) it may carry
BulkOptions ==
    { [format |-> "undefined", nutrients |-> {},
       previewOnly |-> "undefined", includeRaw |-> "undefined", sampleSize |-> 0, estimateOnly |-> "undefined"],
      [format |-> "full", nutrients |-> NutrientIds("protein"),
       previewOnly |-> "undefined", includeRaw |-> "undefined", sampleSize |-> 0, estimateOnly |-> "undefined"],
      [format |-> "undefined", nutrients |-> {},
       previewOnly |-> "true", includeRaw |-> "undefined", sampleSize |-> 1, estimateOnly |-> "undefined"],
      [format |-> "undefined", nutrients |-> {},
       previewOnly |-> "false", includeRaw |-> "false", sampleSize |-> 1, estimateOnly |-> "undefined"],
      [format |-> "undefined", nutrients |-> {},
       previewOnly |-> "true", includeRaw |-> "true", sampleSize |-> 0, estimateOnly |-> "undefined"],
      [format |-> "undefined", nutrients |-> {},
       previewOnly |-> "undefined", includeRaw |-> "undefined", sampleSize |-> 0,
       estimateOnly |-> "true"] }

\* What the two requests of a get-foods call end with.  Both carry the same
\* format and filter, and the upstream keys its records by identifier, so a
\* record is determined by its identifier (it may occur twice in a batch).
InitialReplies ==
    { r \in BulkReplies(AliasFoods, {FoodDataCentralError("http", 503, TRUE)}) :
        r.kind # "wrapped" }
FollowupReplies == { r \in InitialReplies : r.kind \in {"array", "error"} }

RECURSIVE DedupeInto(_, _, _)
\* the loop of dedupeFoodsByFdcId (lines 4153-4162) over the rest of its input
DedupeInto(foods, seenIds, deduped) ==
    IF foods = <<>> THEN deduped
    ELSE LET food == Head(foods)
             fdcId == extractFdcId(food)
         IN  IF fdcId # 0 /\ fdcId \in seenIds
             THEN DedupeInto(Tail(foods), seenIds, deduped)
             ELSE DedupeInto(Tail(foods),
                             IF fdcId # 0 THEN seenIds \cup {fdcId} ELSE seenIds,
                             Append(deduped, food))

\* faulty variant: nothing is dropped
dedupeFoodsKeepAll(foods) == foods

\* dedupeFoodsByFdcId(foods)
dedupeFoodsByFdcId(foods) == DedupeInto(foods, {}, <<>>)

RECURSIVE UniqueInto(_, _)
\* Array.from(new Set(ids)): the first occurrences, in order
UniqueInto(ids, unique) ==
    IF ids = <<>> THEN unique
    ELSE UniqueInto(Tail(ids),
                    IF Head(ids) \in Range(unique) THEN unique ELSE Append(unique, Head(ids)))

\* get-foods handler, lines 3090-3102: the requested ids no returned record carries
missingFdcIds(fdcIds, combinedFoods) ==
    LET returnedIds == { extractFdcId(f) : f \in Range(combinedFoods) } \ {0}
    IN  SelectSeq(fdcIds, LAMBDA id : id \notin returnedIds)

\* hydrateAliasesForBulk, lines 3956-3965: the missing ids that have an alias
aliasRequests(missingIds) ==
    LET aliased == SelectSeq(missingIds, LAMBDA id : resolveFdcAlias(id) # NoAlias)
    IN  [i \in 1 .. Len(aliased) |->
            [requestedId |-> aliased[i], alias |-> resolveFdcAlias(aliased[i])]]

\* hydrateAliasesForBulk, lines 3967-3969: the replacement ids, each once
aliasIds(requests) ==
    UniqueInto([i \in 1 .. Len(requests) |-> requests[i].alias.replacementId], <<>>)

\* hydrateAliasesForBulk, lines 3977-3983: aliasFoodById.get(fdcId)
aliasFoodById(aliasFoods, fdcId) ==
    LET first == CHOOSE i \in 1 .. Len(aliasFoods) :
                    /\ extractFdcId(aliasFoods[i]) = fdcId
                    /\ \A j \in 1 .. i - 1 : extractFdcId(aliasFoods[j]) # fdcId
    IN  aliasFoods[first]

\* hydrateAliasesForBulk, lines 3985-3997: the requests whose replacement came back
resolvedAliases(requests, aliasFoods) ==
    LET returnedIds == { extractFdcId(f) : f \in Range(aliasFoods) } \ {0}
        hits == SelectSeq(requests, LAMBDA r : r.alias.replacementId \in returnedIds)
    IN  [i \in 1 .. Len(hits) |->
            [info |-> hits[i], food |-> aliasFoodById(aliasFoods, hits[i].alias.replacementId)]]

\* formatAliasNote(info, aliasFood): what the note tells
formatAliasNote(info, aliasFood) ==
    [requestedId |-> info.requestedId, substituted |-> aliasFood,
     dataset |-> info.alias.dataset, rationale |-> info.alias.rationale]

\* faulty variant: the summary carries no provenance
toFoodSummaryBare(food, resolved) ==
    [fdcId |-> extractFdcId(food), requestedFdcIds |-> {}]

\* toFoodSummary(food, aliasFulfillment), with aliasFulfillment as the handler
\* builds it from resolved (lines 3117-3125); the sorted duplicate-free array
\* requestedFdcIds is kept as a set ({}: the field is absent)
toFoodSummary(food, resolved) ==
    [fdcId |-> extractFdcId(food),
     requestedFdcIds |->
        IF extractFdcId(food) = 0 THEN {}
        ELSE { resolved[i].info.requestedId :
                 i \in { j \in 1 .. Len(resolved) :
                           extractFdcId(resolved[j].food) = extractFdcId(food) } }]

DEFAULT_PREVIEW_SAMPLE_SIZE == 8
MAX_PREVIEW_SAMPLE_SIZE == 25

\* how many unresolved ids the "USDA did not return" note spells out
\* (lines 3138-3143: unresolvedIds.slice(0, 5))
UNRESOLVED_PREVIEW == 5

\* clampSampleSize(value, fallback); 0 stands for no value
clampSampleSize(value, fallback) ==
    LET base == IF value # 0 THEN value ELSE fallback
    IN  Min(Max(base, 1), MAX_PREVIEW_SAMPLE_SIZE)

\* array.slice(0, n)
SliceTo(array, n) == SubSeq(array, 1, Min(n, Len(array)))

\* faulty variant: every requested id counts as fulfilled
unresolvedIdsNone(fdcIds, initialFoods, resolved) == <<>>

\* get-foods handler, lines 3090-3100, 3116 and 3131: the requested ids that
\* neither the initial batch returned nor an alias fulfilled
unresolvedIds(fdcIds, initialFoods, resolved) ==
    LET returnedIds == { extractFdcId(f) : f \in Range(initialFoods) } \ {0}
        fulfilledIds == { id \in Range(fdcIds) : id \in returnedIds }
                            \cup { resolved[i].info.requestedId : i \in 1 .. Len(resolved) }
    IN  SelectSeq(fdcIds, LAMBDA id : id \notin fulfilledIds)

\* get-foods handler, lines 3049-3055 and 3129-3178: the handler returns;
\* summaries, foods and notes are its locals, response is what it hands back
BulkReturns(initialFoods, combinedFoods, resolved) ==
    LET previewOnly == task.previewOnly = "true"
        includeRaw == IF task.includeRaw = "undefined" THEN ~previewOnly
                      ELSE task.includeRaw = "true"
        sampleSize == clampSampleSize(task.sampleSize,
                                      Min(Min(DEFAULT_PREVIEW_SAMPLE_SIZE, Len(task.fdcIds)),
                                          MAX_PREVIEW_SAMPLE_SIZE))
        summaries == [i \in 1 .. Len(combinedFoods) |->
                         toFoodSummary(combinedFoods[i], resolved)]
        aliasNotes == [i \in 1 .. Len(resolved) |->
                          formatAliasNote(resolved[i].info, resolved[i].food)]
        unresolved == unresolvedIds(task.fdcIds, initialFoods, resolved)
    IN  /\ outcome' = [NoOutcome EXCEPT
                         !.done = TRUE, !.ok = TRUE, !.foods = combinedFoods,
                         !.summaries = summaries,
                         !.notes = aliasNotes,
                         !.response =
                            [previews |-> SliceTo(summaries, sampleSize),
                             includeRaw |-> includeRaw,
                             foods |-> IF includeRaw THEN combinedFoods ELSE <<>>,
                             aliasNotes |-> aliasNotes,
                             didNotReturn |-> SliceTo(unresolved, UNRESOLVED_PREVIEW),
                             unresolvedCount |-> Len(unresolved),
                             dryRun |-> FALSE]]
        /\ spc' = "done"

\* faulty variant: the dry run is not looked at
DryRunNever(estimateOnly) == FALSE

\* get-foods handler, lines 3051 and 3057 (search-foods: 2127, 2146;
\* list-foods: 3207, 3226): estimateOnly ?? false
DryRun(estimateOnly) == estimateOnly = "true"

\* the get-foods tool is called: a dry run (lines 3057-3080) returns its
\* summary at once; any other call runs up to the await of its getFoods
\* request
GetFoodsTool(fdcIds, options) ==
    /\ spc = "idle"
    /\ task' = [tool |-> "get-foods", fdcIds |-> fdcIds, format |-> options.format,
                nutrients |-> options.nutrients, keys |-> {},
                previewOnly |-> options.previewOnly, includeRaw |-> options.includeRaw,
                sampleSize |-> options.sampleSize, estimateOnly |-> options.estimateOnly]
    /\ IF DryRun(options.estimateOnly)
       THEN /\ outcome' = [NoOutcome EXCEPT !.done = TRUE, !.ok = TRUE, !.toolOk = TRUE,
                                            !.response = [NoResponse EXCEPT !.dryRun = TRUE]]
            /\ spc' = "done"
            /\ UNCHANGED upstream
       ELSE /\ upstream' = <<[fdcIds |-> fdcIds, format |-> options.format,
                              nutrients |-> options.nutrients]>>
            /\ spc' = "initial"
            /\ UNCHANGED outcome
    /\ UNCHANGED <<replies, got, lookups, loop, tried, clientVars>>

\* get-foods handler, lines 3082-3111, and hydrateAliasesForBulk up to the
\* await of its getFoods request (lines 3948-3975): the initial request ends
InitialBatchReplies(reply) ==
    /\ spc = "initial"
    /\ replies' = Append(replies, reply)
    /\ LET batch == normalizeBulkFoodsResponse(reply)
           combinedFoods == dedupeFoodsByFdcId(batch.foods)
           missing == missingFdcIds(task.fdcIds, combinedFoods)
           requests == aliasRequests(missing)
       IN  IF ~batch.ok
           THEN /\ outcome' = Threw(batch.error)
                /\ spc' = "done"
                /\ UNCHANGED <<upstream, lookups>>
           ELSE /\ lookups' = missing
                /\ IF requests = <<>>
                   THEN /\ BulkReturns(combinedFoods, combinedFoods, <<>>)
                        /\ UNCHANGED upstream
                   ELSE /\ upstream' = Append(upstream,
                                              [fdcIds |-> aliasIds(requests),
                                               format |-> task.format,
                                               nutrients |-> task.nutrients])
                        /\ outcome' = [NoOutcome EXCEPT !.foods = combinedFoods]
                        /\ spc' = "followup"
    /\ UNCHANGED <<task, got, loop, tried, clientVars>>

\* hydrateAliasesForBulk, lines 3977-3999, and the get-foods handler from
\* line 3112: the follow-up request ends
FollowupBatchReplies(reply) ==
    /\ spc = "followup"
    /\ replies' = Append(replies, reply)
    /\ LET batch == normalizeBulkFoodsResponse(reply)
           requests == aliasRequests(missingFdcIds(task.fdcIds, outcome.foods))
           resolved == resolvedAliases(requests, batch.foods)
           combinedFoods == IF batch.foods # <<>>
                            THEN dedupeFoodsByFdcId(outcome.foods \o batch.foods)
                            ELSE outcome.foods
       IN  IF ~batch.ok
           THEN /\ outcome' = Threw(batch.error)
                /\ spc' = "done"
           ELSE BulkReturns(outcome.foods, combinedFoods, resolved)
    /\ UNCHANGED <<task, upstream, got, lookups, loop, tried, clientVars>>

BulkNext ==
    \/ \E fdcIds \in RequestedLists, options \in BulkOptions : GetFoodsTool(fdcIds, options)
    \/ \E reply \in InitialReplies : InitialBatchReplies(reply)
    \/ \E reply \in FollowupReplies : FollowupBatchReplies(reply)
    \/ ToolReturns

BulkSpec == ServerInit /\ [][BulkNext]_vars


\* ------------------------------------------------------------------------
\* The pagination cursor codec (encodeCursor, decodeCursor)
\* ------------------------------------------------------------------------

MAX_PAGE_SIZE == 200
DEFAULT_SEARCH_PAGE_SIZE == 25
DEFAULT_LIST_PAGE_SIZE == 50

\* the page numbers encodeCursor is given range over 0 .. MaxPage
MaxPage == 3

\* type CursorTool
CursorTools == {"search-foods", "list-foods"}

\* faulty variant: one default for both tools
DEFAULT_CURSOR_SIZESListOnly(tool) == DEFAULT_LIST_PAGE_SIZE

\* DEFAULT_CURSOR_SIZES[tool]
DEFAULT_CURSOR_SIZES(tool) ==
    IF tool = "search-foods" THEN DEFAULT_SEARCH_PAGE_SIZE ELSE DEFAULT_LIST_PAGE_SIZE

\* A JavaScript number that is not negative: int + frac / 10, or Infinity.
Num(int, frac) == [finite |-> TRUE, int |-> int, frac |-> frac]
Infinity == [finite |-> FALSE, int |-> 0, frac |-> 0]

\* Math.trunc(x), for a finite x
MathTrunc(x) == x.int

\* a value in a parsed JSON object; undefined: the member is absent
JUndefined == [type |-> "undefined", num |-> Num(0, 0), str |-> ""]
JNull == [type |-> "null", num |-> Num(0, 0), str |-> ""]
JString(str) == [type |-> "string", num |-> Num(0, 0), str |-> str]
JNumber(x) == [type |-> "number", num |-> x, str |-> ""]

\* the UTF-8 bytes of the strings that occur in a payload
Utf8(str) ==
    CASE str = "tool" -> <<116, 111, 111, 108>>
      [] str = "page" -> <<112, 97, 103, 101>>
      [] str = "size" -> <<115, 105, 122, 101>>
      [] str = "search-foods" -> <<115, 101, 97, 114, 99, 104, 45, 102, 111, 111, 100, 115>>
      [] str = "list-foods" -> <<108, 105, 115, 116, 45, 102, 111, 111, 100, 115>>
      [] str = "2" -> <<50>>
      [] OTHER -> <<>>

RECURSIVE Digits(_)
\* the decimal digits of a natural number, as bytes
Digits(n) == IF n < 10 THEN <<48 + n>> ELSE Digits(n \div 10) \o <<48 + (n % 10)>>

\* the JSON text of a value: a string in quotes, a number in decimal (1e999
\* is a text that parses to Infinity), or null
ValueText(v) ==
    IF v.type = "string" THEN <<34>> \o Utf8(v.str) \o <<34>>
    ELSE IF v.type = "number"
    THEN IF ~v.num.finite THEN <<49, 101, 57, 57, 57>>
         ELSE IF v.num.frac = 0 THEN Digits(v.num.int)
         ELSE Digits(v.num.int) \o <<46, 48 + v.num.frac>>
    ELSE <<110, 117, 108, 108>>

RECURSIVE JoinMembers(_)
\* "name":value of every member, with commas between them
JoinMembers(members) ==
    IF members = <<>> THEN <<>>
    ELSE <<34>> \o Utf8(Head(members).name) \o <<34, 58>> \o ValueText(Head(members).value)
            \o (IF Len(members) > 1 THEN <<44>> ELSE <<>>)
            \o JoinMembers(Tail(members))

\* JSON.stringify(payload) for an object with the members tool, page and size
\* in that order: compact, absent members left out
JSONstringify(payload) ==
    LET members == SelectSeq(<<[name |-> "tool", value |-> payload.tool],
                               [name |-> "page", value |-> payload.page],
                               [name |-> "size", value |-> payload.size]>>,
                             LAMBDA m : m.value.type # "undefined")
    IN  <<123>> \o JoinMembers(members) \o <<125>>

RECURSIVE Base64Encode(_)
\* Buffer.from(json, 'utf8').toString('base64').  The characters of a base64
\* or base64url string are numbers: 0 .. 63 are the places of the base64
\* alphabet, of which 62 is '+' and 63 is '/'; 64 is '=', 65 is '-' and 66
\* is '_'.
Base64Encode(bytes) ==
    IF bytes = <<>> THEN <<>>
    ELSE IF Len(bytes) = 1
    THEN <<bytes[1] \div 4, (bytes[1] % 4) * 16, 64, 64>>
    ELSE IF Len(bytes) = 2
    THEN <<bytes[1] \div 4, (bytes[1] % 4) * 16 + bytes[2] \div 16,
           (bytes[2] % 16) * 4, 64>>
    ELSE <<bytes[1] \div 4, (bytes[1] % 4) * 16 + bytes[2] \div 16,
           (bytes[2] % 16) * 4 + bytes[3] \div 64, bytes[3] % 64>>
            \o Base64Encode(SubSeq(bytes, 4, Len(bytes)))

RECURSIVE DecodeSextets(_)
\* the bytes that a run of base64 characters without padding stands for; a
\* last character that completes no byte is dropped
DecodeSextets(chars) ==
    IF Len(chars) < 2 THEN <<>>
    ELSE IF Len(chars) = 2
    THEN <<chars[1] * 4 + chars[2] \div 16>>
    ELSE IF Len(chars) = 3
    THEN <<chars[1] * 4 + chars[2] \div 16, (chars[2] % 16) * 16 + chars[3] \div 4>>
    ELSE <<chars[1] * 4 + chars[2] \div 16, (chars[2] % 16) * 16 + chars[3] \div 4,
           (chars[3] % 4) * 64 + chars[4]>>
            \o DecodeSextets(SubSeq(chars, 5, Len(chars)))

\* Buffer.from(normalized, 'base64'): decoding ends at the first '='
Base64Decode(chars) ==
    LET pads == { i \in 1 .. Len(chars) : chars[i] = 64 }
        data == IF pads = {} THEN chars
                ELSE SubSeq(chars, 1, (CHOOSE i \in pads : \A j \in pads : i <= j) - 1)
    IN  DecodeSextets(data)

\* value.replace(/from/g, to)
ReplaceAll(chars, from, to) ==
    [i \in 1 .. Len(chars) |-> IF chars[i] = from THEN to ELSE chars[i]]

RECURSIVE StripPadding(_)
\* value.replace(/=+$/u, '')
StripPadding(chars) ==
    IF chars # <<>> /\ chars[Len(chars)] = 64
    THEN StripPadding(SubSeq(chars, 1, Len(chars) - 1))
    ELSE chars

\* the cursor payload {tool, page, size} built on lines 3421-3425
CursorPayload(tool, page, size) ==
    [tool |-> JString(tool),
     page |-> JNumber(Num(Max(1, MathTrunc(page)), 0)),
     size |-> JNumber(Num(Min(Max(MathTrunc(size), 1), MAX_PAGE_SIZE), 0))]

\* faulty variant: the size is left out of the payload
encodeCursorPageOnly(tool, page, size) ==
    StripPadding(Base64Encode(JSONstringify(
        [CursorPayload(tool, page, size) EXCEPT !.size = JUndefined])))

\* encodeCursor(tool, page, size)
encodeCursor(tool, page, size) ==
    LET json == JSONstringify(CursorPayload(tool, page, size))
        base64 == Base64Encode(json)
    IN  StripPadding(ReplaceAll(ReplaceAll(base64, 62, 65), 63, 66))

\* normalizeBase64Url(value)
normalizeBase64Url(value) ==
    LET replaced == ReplaceAll(ReplaceAll(value, 65, 62), 66, 63)
        padLength == IF Len(replaced) % 4 = 0 THEN 0 ELSE 4 - (Len(replaced) % 4)
    IN  replaced \o [i \in 1 .. padLength |-> 64]

\* the values the page or size of a cursor payload written by hand may
\* have: none, null, a string, a number
PayloadValues ==
    {JUndefined, JNull, JString("2")}
        \cup { JNumber(x) : x \in { Num(0, 0), Num(0, 5), Num(1, 0), Num(2, 5),
                                     Num(MaxPage, 0), Num(MAX_PAGE_SIZE, 0),
                                     Num(MAX_PAGE_SIZE + 1, 0), Infinity } }

\* the JSON objects a cursor may hold
Payloads ==
    [tool : {JUndefined} \cup { JString(t) : t \in CursorTools },
     page : PayloadValues, size : PayloadValues]

\* the numbers encodeCursor is called with: page numbers and page sizes,
\* whole or not
EncodedPages == { Num(p, 0) : p \in 0 .. MaxPage } \cup {Num(2, 5), Num(12, 0)}
EncodedSizes ==
    { Num(0, 0), Num(1, 0), Num(2, 5), Num(DEFAULT_SEARCH_PAGE_SIZE, 0),
      Num(DEFAULT_LIST_PAGE_SIZE, 0), Num(MAX_PAGE_SIZE, 0), Num(MAX_PAGE_SIZE + 1, 0) }

\* the JSON objects the model's texts stand for: those a client may write
\* and those encodeCursor writes, with or without each member
JsonObjects ==
    LET values == PayloadValues \cup { JNumber(Num(MathTrunc(x), 0)) :
                                         x \in EncodedPages \cup EncodedSizes }
    IN  [tool : {JUndefined} \cup { JString(t) : t \in CursorTools },
         page : values, size : values]

\* the JSON texts of those objects, each with the object it parses to
PayloadTexts == { [text |-> JSONstringify(object), payload |-> object] : object \in JsonObjects }

\* JSON.parse(json): the object the text stands for, or a SyntaxError when
\* the text is not JSON (cut short, or followed by a stray byte)
JSONparse(json) ==
    IF \E e \in PayloadTexts : e.text = json
    THEN [ok |-> TRUE, payload |-> (CHOOSE e \in PayloadTexts : e.text = json).payload]
    ELSE [ok |-> FALSE, payload |-> [tool |-> JUndefined, page |-> JUndefined, size |-> JUndefined]]

\* an Error thrown inside or by decodeCursor
CursorError(message, tool) == [message |-> message, tool |-> tool]
NoCursorError == CursorError("none", "none")

\* new Error(`Invalid pagination cursor for ${expectedTool}.`)
InvalidCursor(expectedTool) == CursorError("Invalid pagination cursor for", expectedTool)

\* decodeCursor throws error
DecodeFailed(error) == [ok |-> FALSE, page |-> 0, size |-> 0, error |-> error]

\* faulty variant: the tool of the payload is not looked at
ToolMismatchNever(payload, expectedTool) == FALSE

\* decodeCursor, line 3435: payload.tool !== expectedTool
ToolMismatch(payload, expectedTool) == payload.tool # JString(expectedTool)

\* decodeCursor, line 3438 and lines 3443-3444: a finite number >= 1
FiniteAtLeastOne(v) == v.type = "number" /\ v.num.finite /\ v.num.int >= 1

\* decodeCursor, lines 3432-3451: the try block
decodeCursorTry(cursor, expectedTool) ==
    LET normalized == normalizeBase64Url(cursor)
        json == Base64Decode(normalized)
        parsed == JSONparse(json)
        payload == parsed.payload
        fallbackSize == DEFAULT_CURSOR_SIZES(expectedTool)
        rawSize == IF FiniteAtLeastOne(payload.size) THEN payload.size.num
                   ELSE Num(fallbackSize, 0)
    IN  IF ~parsed.ok THEN DecodeFailed(CursorError("SyntaxError", "none"))
        ELSE IF ToolMismatch(payload, expectedTool)
        THEN DecodeFailed(CursorError("Cursor tool mismatch.", "none"))
        ELSE IF ~FiniteAtLeastOne(payload.page)
        THEN DecodeFailed(CursorError("Cursor page missing or invalid.", "none"))
        ELSE [ok |-> TRUE,
              page |-> Max(1, MathTrunc(payload.page.num)),
              size |-> Min(Max(MathTrunc(rawSize), 1), MAX_PAGE_SIZE),
              error |-> NoCursorError]

\* faulty variant: the error of the try block gets out
decodeCursorLeaky(cursor, expectedTool) == decodeCursorTry(cursor, expectedTool)

\* decodeCursor(cursor, expectedTool): the try block and its catch
decodeCursor(cursor, expectedTool) ==
    LET attempted == decodeCursorTry(cursor, expectedTool)
    IN  IF attempted.ok THEN attempted ELSE DecodeFailed(InvalidCursor(expectedTool))

\* how a cursor written by hand differs from the encoding of its payload:
\* not at all, by its last character missing, or by one character ('A') more
Damages == {"none", "cut", "extended"}

\* the cursor a client hands in for a payload
HandMade(payload, damage) ==
    LET cursor == StripPadding(Base64Encode(JSONstringify(payload)))
    IN  IF damage = "cut" THEN SubSeq(cursor, 1, Len(cursor) - 1)
        ELSE IF damage = "extended" THEN Append(cursor, 0)
        ELSE cursor

\* encodeCursor is applied to a tool, a page and a size
EncodeCursor(tool, page, size) ==
    /\ probe = NoProbe
    /\ probe' = [fn |-> "encodeCursor", tool |-> tool, page |-> page, size |-> size,
                 cursor |-> encodeCursor(tool, page, size)]
    /\ UNCHANGED <<configVars, limiterVars, callVars, historyVars, serverVars>>

\* decodeCursor is applied to the cursor just encoded
DecodeEncoded(expectedTool) ==
    /\ probe.fn = "encodeCursor"
    /\ probe' = [fn |-> "decodeCursor", from |-> "encodeCursor",
                 tool |-> probe.tool, page |-> probe.page, size |-> probe.size,
                 cursor |-> probe.cursor, expectedTool |-> expectedTool,
                 cause |-> decodeCursorTry(probe.cursor, expectedTool).error,
                 result |-> decodeCursor(probe.cursor, expectedTool)]
    /\ UNCHANGED <<configVars, limiterVars, callVars, historyVars, serverVars>>

\* decodeCursor is applied to a cursor a client has written
DecodeHandMade(payload, damage, expectedTool) ==
    /\ probe = NoProbe
    /\ LET cursor == HandMade(payload, damage)
       IN  probe' = [fn |-> "decodeCursor", from |-> "client",
                     payload |-> payload, damage |-> damage,
                     cursor |-> cursor, expectedTool |-> expectedTool,
                     cause |-> decodeCursorTry(cursor, expectedTool).error,
                     result |-> decodeCursor(cursor, expectedTool)]
    /\ UNCHANGED <<configVars, limiterVars, callVars, historyVars, serverVars>>

CursorNext ==
    \/ \E tool \in CursorTools, page \in EncodedPages, size \in EncodedSizes :
          EncodeCursor(tool, page, size)
    \/ \E expectedTool \in CursorTools : DecodeEncoded(expectedTool)
    \/ \E payload \in Payloads, damage \in Damages, expectedTool \in CursorTools :
          DecodeHandMade(payload, damage, expectedTool)
    \/ Forget

CursorSpec == ServerInit /\ [][CursorNext]_vars

\* ------------------------------------------------------------------------
\* Paging through search-foods and list-foods
\* ------------------------------------------------------------------------

\* input.pagination as a caller without a cursor gives it: page and size
\* (0: not given), with no cursor (<<>>)
PaginationInputs == [cursor : {<<>>}, page : 0 .. MaxPage, size : {0, 1, 2}]

\* What a search or list request ends with: an error of the transport, or a
\* page.  Of a page of search results the handler reads currentPage and
\* totalPages, of a page of the list the number of its items; the listing
\* and the search have at most MaxPage pages.
PageResponses ==
    [ok : {FALSE}, currentPage : {0}, totalPages : {0}, count : {0}]
        \cup [ok : {TRUE}, currentPage : 1 .. MaxPage, totalPages : 0 .. MaxPage,
              count : {0, 1, 2, DEFAULT_SEARCH_PAGE_SIZE, DEFAULT_LIST_PAGE_SIZE}]

\* new Error(message) thrown by the search-foods or list-foods handler, or
\* by decodeCursor under it
PaginationError(message) ==
    [fdc |-> FALSE, message |-> message, status |-> 0, retryable |-> FALSE]

\* no page handed back: structuredContent.summary before the handler returns
NoPage ==
    [page |-> 0, pageSize |-> 0, returned |-> 0, totalPages |-> 0,
     nextCursor |-> <<>>, dryRun |-> FALSE]

\* the caller holds no cursor
NoWalk == NoProbe

\* search-foods (lines 2124-2186) and list-foods (lines 3204-3262) are
\* called: the cursor is decoded, page and size are fixed; a dry run returns
\* at once, any other call runs up to the await of its client request.
\* followed is the walk the cursor was taken from (NoWalk: from none).
PageTool(tool, pagination, estimateOnly, followed) ==
    /\ spc = "idle"
    /\ LET hasCursor == pagination.cursor # <<>>
           conflict == hasCursor /\ (pagination.page # 0 \/ pagination.size # 0)
           cursorPayload == decodeCursor(pagination.cursor, tool)
           rawPageNumber == IF hasCursor THEN cursorPayload.page
                            ELSE IF pagination.page # 0 THEN pagination.page
                            ELSE 1
           rawPageSize == IF hasCursor THEN cursorPayload.size
                          ELSE IF pagination.size # 0 THEN pagination.size
                          ELSE IF tool = "search-foods" THEN DEFAULT_SEARCH_PAGE_SIZE
                          ELSE DEFAULT_LIST_PAGE_SIZE
           pageNumber == Max(1, rawPageNumber)
           pageSize == Min(Max(rawPageSize, 1), MAX_PAGE_SIZE)
           thrown == conflict \/ (hasCursor /\ ~cursorPayload.ok)
       IN  /\ task' = [tool |-> tool, fdcIds |-> <<>>, format |-> "undefined",
                       nutrients |-> {}, keys |-> {}, pagination |-> pagination,
                       estimateOnly |-> estimateOnly,
                       pageNumber |-> IF thrown THEN 0 ELSE pageNumber,
                       pageSize |-> IF thrown THEN 0 ELSE pageSize,
                       followed |-> followed]
           /\ IF conflict
              THEN /\ outcome' = Threw(PaginationError(
                                     "Provide either pagination.cursor or pagination.page"))
                   /\ spc' = "done"
                   /\ UNCHANGED upstream
              ELSE IF hasCursor /\ ~cursorPayload.ok
              THEN /\ outcome' = Threw(PaginationError(cursorPayload.error.message))
                   /\ spc' = "done"
                   /\ UNCHANGED upstream
              ELSE IF DryRun(estimateOnly)
              THEN /\ outcome' = [NoOutcome EXCEPT
                                    !.done = TRUE, !.ok = TRUE, !.toolOk = TRUE,
                                    !.response = [NoPage EXCEPT !.page = pageNumber,
                                                                !.pageSize = pageSize,
                                                                !.dryRun = TRUE]]
                   /\ spc' = "done"
                   /\ UNCHANGED upstream
              ELSE /\ upstream' = <<[path |-> tool, pageNumber |-> pageNumber,
                                     pageSize |-> pageSize]>>
                   /\ spc' = "paging"
                   /\ UNCHANGED outcome
    /\ UNCHANGED <<replies, got, lookups, loop, tried, clientVars>>

\* the tool is called with page and size, or with neither
StartPaging(tool, pagination, estimateOnly) ==
    /\ pagination.cursor = <<>>
    /\ PageTool(tool, pagination, estimateOnly, NoWalk)

\* the tool is called with the nextCursor the caller was handed last
FollowCursor(tool, estimateOnly) ==
    /\ probe.fn = "walk"
    /\ PageTool(tool, [cursor |-> probe.cursor, page |-> 0, size |-> 0], estimateOnly, probe)

\* search-foods, lines 2188-2255, and list-foods, lines 3264-3300: the
\* client request ends and the handler returns its summary, with a
\* nextCursor or without; the caller keeps the cursor it is handed
PageReplies(response) ==
    /\ spc = "paging"
    /\ (response.ok /\ task.tool = "list-foods" /\ response.count = task.pageSize)
          => task.pageNumber < MaxPage
    /\ replies' = Append(replies, response)
    /\ LET nextCursor ==
              IF task.tool = "search-foods"
              THEN IF response.currentPage < response.totalPages
                   THEN encodeCursor("search-foods", Num(response.currentPage + 1, 0),
                                     Num(task.pageSize, 0))
                   ELSE <<>>
              ELSE IF response.count = task.pageSize
                   THEN encodeCursor("list-foods", Num(task.pageNumber + 1, 0),
                                     Num(task.pageSize, 0))
                   ELSE <<>>
           page == IF task.tool = "search-foods" THEN response.currentPage
                   ELSE task.pageNumber
       IN  IF ~response.ok
           THEN /\ outcome' = Threw(FoodDataCentralError("http", 503, TRUE))
                /\ UNCHANGED probe
           ELSE /\ outcome' = [NoOutcome EXCEPT
                                 !.done = TRUE, !.ok = TRUE, !.toolOk = TRUE,
                                 !.response = [NoPage EXCEPT
                                                 !.page = page,
                                                 !.pageSize = task.pageSize,
                                                 !.returned = response.count,
                                                 !.totalPages = response.totalPages,
                                                 !.nextCursor = nextCursor]]
                /\ probe' = IF nextCursor = <<>> THEN NoWalk
                            ELSE [fn |-> "walk", tool |-> task.tool, cursor |-> nextCursor,
                                  requested |-> task.pageNumber, page |-> page,
                                  pageSize |-> task.pageSize]
    /\ spc' = "done"
    /\ UNCHANGED <<task, upstream, got, lookups, loop, tried>>
    /\ UNCHANGED <<configVars, limiterVars, callVars, historyVars>>

PagingNext ==
    \/ \E tool \in CursorTools, pagination \in PaginationInputs,
          estimateOnly \in {"undefined", "true"} :
          StartPaging(tool, pagination, estimateOnly)
    \/ \E tool \in CursorTools, estimateOnly \in {"undefined", "true"} :
          FollowCursor(tool, estimateOnly)
    \/ \E response \in PageResponses : PageReplies(response)
    \/ ToolReturns

PagingSpec == ServerInit /\ [][PagingNext]_vars

\* search-foods, list-foods and get-foods, each called for a dry run or not
\* (get-foods for one identifier, answered by an error or at most one record)
DryRunNext ==
    \/ PagingNext
    \/ \E fdcIds \in { ids \in RequestedLists : Len(ids) = 1 },
          options \in { o \in BulkOptions : o.previewOnly = "undefined" /\ o.format = "undefined" } :
          GetFoodsTool(fdcIds, options)
    \/ \E reply \in { r \in InitialReplies : Len(r.foods) <= 1 } : InitialBatchReplies(reply)
    \/ \E reply \in { r \in FollowupReplies : Len(r.foods) <= 1 } : FollowupBatchReplies(reply)

DryRunSpec == ServerInit /\ [][DryRunNext]_vars

\* ------------------------------------------------------------------------
\* The backoff delay and the Retry-After hint
\* ------------------------------------------------------------------------

\* Math.random() returns random / JitterSteps for a random in 0 .. JitterSteps - 1
JitterSteps == 4

\* faulty variant: the jitter is Math.random() alone
computeBackoffDelayNoFloor(retryDelayMs, n, random) ==
    LET base == retryDelayMs * 2 ^ n
    IN  (2 * base * random + JitterSteps) \div (2 * JitterSteps)

\* FoodDataCentralClient.computeBackoffDelay(attempt), for this.retry.retryDelayMs
\* and a draw of Math.random(): base * jitter is
\* base * (JitterSteps + 2 * random) / (2 * JitterSteps), and Math.round(x) is
\* the floor of x + 1/2
computeBackoffDelay(retryDelayMs, n, random) ==
    LET base == retryDelayMs * 2 ^ n
    IN  (base * (JitterSteps + 2 * random) + JitterSteps) \div (2 * JitterSteps)

\* the values of the option retryDelayMs (750: DEFAULT_RETRY_DELAY_MS)
RetryDelays == {0, 1, 3, 750}

\* What headers.get('Retry-After') returns: null, the empty string, a number
\* of seconds, an HTTP date that many seconds from now, or another text.
RetryAfterHeaders ==
    [form : {"null", "empty", "text"}, seconds : {0}]
        \cup [form : {"seconds", "date"}, seconds : {0, 2}]

\* parseRetryAfterMs(headers)
parseRetryAfterMs(header) ==
    IF header.form \in {"null", "empty"} THEN Undefined
    ELSE IF header.form = "seconds"
    THEN [defined |-> TRUE, value |-> Max(0, header.seconds * 1000)]
    ELSE IF header.form = "text" THEN Undefined
    ELSE [defined |-> TRUE, value |-> Max(0, header.seconds * 1000)]

\* sendOnce, lines 707-721: the error thrown for a response that is not ok
HttpFailure(status, header) ==
    [fdc |-> TRUE, message |-> "http", status |-> status,
     retryable |-> isRetryableStatus(status),
     retryAfterMs |-> parseRetryAfterMs(header)]

\* faulty variant: the backoff waits at least as long as the hint says
CatchHonouringHint(error, n, retryDelayMs, random) ==
    [retry |-> shouldRetry(error, n),
     backoffMs |-> IF shouldRetry(error, n)
                   THEN Max(computeBackoffDelay(retryDelayMs, n, random),
                            error.retryAfterMs.value)
                   ELSE 0]

\* sendWithRetries, lines 650-656: the catch block decides whether the call
\* goes on and how long it waits first (0 when it does not go on)
Catch(error, n, retryDelayMs, random) ==
    [retry |-> shouldRetry(error, n),
     backoffMs |-> IF shouldRetry(error, n)
                   THEN computeBackoffDelay(retryDelayMs, n, random)
                   ELSE 0]

\* computeBackoffDelay is applied to an attempt index
ComputeBackoff(retryDelayMs, n, random) ==
    /\ probe = NoProbe
    /\ probe' = [fn |-> "computeBackoffDelay", retryDelayMs |-> retryDelayMs, n |-> n,
                 random |-> random,
                 delay |-> computeBackoffDelay(retryDelayMs, n, random)]
    /\ UNCHANGED <<configVars, limiterVars, callVars, historyVars, serverVars>>

\* Attempt n of a call ends with a response that is not ok and carries a
\* Retry-After header; beside it, the same attempt with the same draw of
\* Math.random() ends with the same response without that header.
FailWithHint(status, header, n, retryDelayMs, random) ==
    /\ probe = NoProbe
    /\ LET error == HttpFailure(status, header)
           plain == HttpFailure(status, [form |-> "null", seconds |-> 0])
       IN  probe' = [fn |-> "catch", status |-> status, header |-> header, n |-> n,
                     retryDelayMs |-> retryDelayMs, random |-> random,
                     error |-> error,
                     decision |-> Catch(error, n, retryDelayMs, random),
                     unhinted |-> Catch(plain, n, retryDelayMs, random)]
    /\ UNCHANGED <<configVars, limiterVars, callVars, historyVars, serverVars>>

BackoffNext ==
    \/ \E retryDelayMs \in RetryDelays, n \in AttemptIndexes, random \in 0 .. JitterSteps - 1 :
          ComputeBackoff(retryDelayMs, n, random)
    \/ \E status \in {404, 429, 503}, header \in RetryAfterHeaders, n \in AttemptIndexes,
          retryDelayMs \in RetryDelays, random \in 0 .. JitterSteps - 1 :
          FailWithHint(status, header, n, retryDelayMs, random)
    \/ Forget

BackoffSpec == ServerInit /\ [][BackoffNext]_vars

\* ------------------------------------------------------------------------
\* collectNutrients over the entries of a record
\* ------------------------------------------------------------------------

\* the longest foodNutrients list scanned
MaxEntries == 2

\* NUTRIENT_DEFINITIONS[key].names
NutrientNames(key) ==
    IF key = "protein" THEN {"protein"}
    ELSE IF key = "iron" THEN {"iron", "iron, fe"}
    ELSE {"total lipid (fat)", "total fat", "total fat (nlea)", "total lipid (nlea)"}

\* the name an entry carries ("undefined": none of the name fields is a string)
EntryNames == {"undefined", " Protein ", "Total lipid (fat)", "Sugars, total"}

\* candidate.trim().toLowerCase()
TrimLower(name) ==
    IF name = " Protein " THEN "protein"
    ELSE IF name = "Total lipid (fat)" THEN "total lipid (fat)"
    ELSE IF name = "Sugars, total" THEN "sugars, total"
    ELSE name

\* The foodNutrients entries scanned: nutrientId (0: absent), nutrient.number
\* (0: absent), the first name field that is a string, amount and dataPoints.
ScanEntries ==
    { e \in [nutrientId : {0, 1003}, number : {0, 204}, name : EntryNames,
             amount : {"undefined", "num0", "num5"}, dataPoints : {"undefined", "num5"}] :
        /\ e.nutrientId = 0 \/ e.number = 0
        /\ e.amount # "undefined" => e.dataPoints = "undefined" }

\* resolveNutrientId(entry)
resolveNutrientId(entry) ==
    IF entry.nutrientId # 0 THEN [defined |-> TRUE, value |-> entry.nutrientId]
    ELSE IF entry.number # 0 THEN [defined |-> TRUE, value |-> entry.number]
    ELSE Undefined

\* resolveNutrientName(entry); "undefined" when no name field holds a string
\* that is not blank
resolveNutrientName(entry) ==
    IF entry.name = "undefined" THEN "undefined" ELSE TrimLower(entry.name)

\* collectNutrients, lines 3551-3556: idMatches || nameMatches
entryMatches(entry, key) ==
    \/ /\ resolveNutrientId(entry).defined
       /\ resolveNutrientId(entry).value \in NutrientIds(key)
    \/ /\ resolveNutrientName(entry) # "undefined"
       /\ resolveNutrientName(entry) \in NutrientNames(key)

\* collectNutrients, lines 3538-3565: the loop over the entries, from the
\* entries left to scan, the keys pending and the results so far
RECURSIVE scanFoodNutrients(_, _, _)
scanFoodNutrients(nutrients, pending, results) ==
    IF nutrients = <<>> \/ pending = {}
    THEN [pending |-> pending, results |-> results]
    ELSE LET entry == Head(nutrients)
             amount == resolveNutrientAmount(entry)
             hit == IF amount.defined
                    THEN { key \in pending : entryMatches(entry, key) }
                    ELSE {}
         IN  scanFoodNutrients(Tail(nutrients), pending \ hit,
                 results \cup { [key |-> key, value |-> amount.value,
                                 nutrientId |-> resolveNutrientId(entry)] : key \in hit })

\* the most fields a label block has
MaxFields == 2

\* LABEL_NUTRIENT_CANDIDATES[key]: the overrides, then the names not yet listed
LABEL_NUTRIENT_CANDIDATES(key) ==
    IF key = "protein" THEN <<"protein", "protein (nlea)">>
    ELSE IF key = "iron" THEN <<"iron", "iron, fe">>
    ELSE <<"fat", "totalFat", "total fat", "total fat (nlea)", "total lipid (fat)",
           "total lipid (nlea)">>

\* value.toLowerCase(), for the field names and the candidates met
toLowerCase(str) ==
    IF str = "totalFat" THEN "totalfat"
    ELSE IF str = "Total fat (NLEA)" THEN "total fat (nlea)"
    ELSE IF str = "TOTAL-FAT" THEN "total-fat"
    ELSE str

\* normalizeLabelKey(value): the letters and digits of value, lower-cased
normalizeLabelKey(str) ==
    IF str \in {"totalFat", "totalfat", "total fat", "TOTAL-FAT", "total-fat"} THEN "totalfat"
    ELSE IF str \in {"Total fat (NLEA)", "total fat (nlea)"} THEN "totalfatnlea"
    ELSE IF str = "total lipid (fat)" THEN "totallipidfat"
    ELSE IF str = "total lipid (nlea)" THEN "totallipidnlea"
    ELSE IF str = "protein (nlea)" THEN "proteinnlea"
    ELSE IF str = "iron, fe" THEN "ironfe"
    ELSE str

\* What a field of the label block holds: a primitive (null, a number, a
\* string) or an object whose field value is such a primitive.
LabelValues == [kind : {"primitive", "object"}, raw : {"null", "num14", "strEmpty"}]

\* resolveLabelNutrientAmount(entry); the object carries value only
resolveLabelNutrientAmount(entry) ==
    IF entry.kind = "undefined" THEN Undefined
    ELSE IF entry.kind = "primitive" THEN toFiniteNumber(entry.raw)
    ELSE toFiniteNumber(Coalesce(entry.raw, "undefined"))

\* The labelNutrients of a record: absent, or an object whose fields, in the
\* order of Object.entries, have names that differ once stripped.
LabelFields == [key : {"fat", "Total fat (NLEA)", "TOTAL-FAT", "protein"}, value : LabelValues]

LabelBlocks ==
    { label \in [present : BOOLEAN, fields : SeqUpTo(LabelFields, MaxFields)] :
        /\ ~label.present => label.fields = <<>>
        /\ \A i \in 1 .. Len(label.fields) : \A j \in 1 .. Len(label.fields) :
              label.fields[i].key = label.fields[j].key => i = j }

\* buildLabelNutrientLookup, lines 3593-3609: the Map entries, as the list of
\* its set() calls; a later call for a name already present is the one
\* entries.has() prevents
RECURSIVE LabelEntries(_)
LabelEntries(fields) ==
    IF fields = <<>>
    THEN <<>>
    ELSE LET field == Head(fields)
         IN  << [key |-> field.key, value |-> field.value],
                [key |-> toLowerCase(field.key), value |-> field.value],
                [key |-> normalizeLabelKey(field.key), value |-> field.value] >>
                 \o LabelEntries(Tail(fields))

\* entries.get(name): the value first set for name, or undefined
MapGet(entries, name) ==
    IF \E i \in 1 .. Len(entries) : entries[i].key = name
    THEN entries[CHOOSE i \in 1 .. Len(entries) :
                     /\ entries[i].key = name
                     /\ \A j \in 1 .. i - 1 : entries[j].key # name].value
    ELSE [kind |-> "undefined", raw |-> "undefined"]

\* a ?? b for what a label field holds
OrElse(a, b) ==
    IF a.kind = "undefined" \/ (a.kind = "primitive" /\ a.raw = "null") THEN b ELSE a

\* faulty variant: the candidate is looked up as it is written only
buildLabelNutrientLookupRawOnly(fields, candidate) ==
    LET raw == SelectSeq(fields, LAMBDA field : field.key = candidate)
    IN  IF raw = <<>> THEN [kind |-> "undefined", raw |-> "undefined"] ELSE raw[1].value

\* buildLabelNutrientLookup(labelNutrients)(candidate), lines 3611-3618
buildLabelNutrientLookup(fields, candidate) ==
    LET entries == LabelEntries(fields)
    IN  OrElse(MapGet(entries, candidate),
               OrElse(MapGet(entries, toLowerCase(candidate)),
                      MapGet(entries, normalizeLabelKey(candidate))))

\* collectNutrients, lines 3573-3585: the first candidate of key whose label
\* entry has an amount, 0 when none has
FirstLabelCandidate(fields, key) ==
    LET candidates == LABEL_NUTRIENT_CANDIDATES(key)
        usable == { i \in 1 .. Len(candidates) :
                      resolveLabelNutrientAmount(
                          buildLabelNutrientLookup(fields, candidates[i])).defined }
    IN  IF usable = {} THEN 0 ELSE CHOOSE i \in usable : \A j \in usable : i <= j

\* collectNutrients, lines 3567-3587: the label block is gone through for the
\* keys still pending
scanLabelNutrients(label, pending, results) ==
    IF pending = {} \/ ~label.present
    THEN results
    ELSE results \cup
            { [key |-> key,
               value |-> resolveLabelNutrientAmount(
                             buildLabelNutrientLookup(label.fields,
                                 LABEL_NUTRIENT_CANDIDATES(key)[
                                     FirstLabelCandidate(label.fields, key)])).value,
               nutrientId |-> Undefined] :
              key \in { k \in pending : FirstLabelCandidate(label.fields, k) # 0 } }

\* collectNutrients(food, keys) for a record with these foodNutrients and
\* this labelNutrients
collectNutrientsFrom(nutrients, label, keys) ==
    LET scan == scanFoodNutrients(nutrients, keys, {})
    IN  scanLabelNutrients(label, scan.pending, scan.results)

\* the entries of the records that also carry a label block
LabelledEntries ==
    { e \in ScanEntries : e.number = 0 /\ e.name = "undefined" }

\* collectNutrients is applied to a record without label block
ScanRecord(nutrients, keys) ==
    /\ probe = NoProbe
    /\ probe' = [fn |-> "scan", nutrients |-> nutrients, keys |-> keys,
                 results |-> collectNutrientsFrom(nutrients,
                                 [present |-> FALSE, fields |-> <<>>], keys)]
    /\ UNCHANGED <<configVars, limiterVars, callVars, historyVars, serverVars>>

\* collectNutrients is applied to a record with at most one entry and a
\* label block
ScanLabelled(nutrients, label, keys) ==
    /\ probe = NoProbe
    /\ probe' = [fn |-> "label", nutrients |-> nutrients, label |-> label, keys |-> keys,
                 scanned |-> scanFoodNutrients(nutrients, keys, {}).results,
                 results |-> collectNutrientsFrom(nutrients, label, keys)]
    /\ UNCHANGED <<configVars, limiterVars, callVars, historyVars, serverVars>>

ScanNext ==
    \/ /\ probe = NoProbe
       /\ \E nutrients \in SeqUpTo(ScanEntries, MaxEntries),
             keys \in (SUBSET NutrientKeys) \ {{}} :
             ScanRecord(nutrients, keys)
    \/ /\ probe = NoProbe
       /\ \E nutrients \in SeqUpTo(LabelledEntries, 1), label \in LabelBlocks,
             keys \in (SUBSET NutrientKeys) \ {{}} :
             ScanLabelled(nutrients, label, keys)
    \/ Forget

ScanSpec == ServerInit /\ [][ScanNext]_vars

\* ------------------------------------------------------------------------
\* Properties of the limiter
\* ------------------------------------------------------------------------

\* the callers that hold a slot: acquire has returned, release has not run
Holding == { c \in Callers : pc[c] \in {"sending", "backoff"} }

\* the callers inside acquire
Waiting == { c \in Callers : pc[c] \in {"parked", "woken", "sleeping"} }

\* C1: in every reachable state the limiter's active count is at most
\* maxConcurrent, and so is the number of callers between the end of their
\* acquire and their release.
ActiveWithinLimit ==
    /\ active <= maxConcurrent
    /\ Cardinality(Holding) <= maxConcurrent

\* C1 witness: the limiter is full while two callers are parked behind it
ActiveAtLimitWithQueue ==
    /\ active = maxConcurrent
    /\ Len(waiters) >= 2

\* C2: every dispatch (the step of acquire that sets lastDispatched) reads an
\* elapsed time since the previous dispatch of at least minDelayMs.
DispatchesSpaced == dispatchGap >= minDelayMs

\* C2 witness: two callers waited out the spacing interval together; one has
\* just been dispatched and the other's delay is over but has not run yet
SpacedWithSleeper ==
    \E c1, c2 \in Callers :
        /\ pc[c1] = "sending"
        /\ elapsed = 0
        /\ pc[c2] = "sleeping"
        /\ timer[c2] = 0

\* C3: whenever a caller is dispatched, no caller that arrived before it is
\* still inside acquire: the dispatched caller is the earliest arrival among
\* the waiting ones, or nobody is waiting.
FifoDispatch ==
    [][\A c \in Callers :
          (active' = active + 1 /\ pc[c] # "sending" /\ pc'[c] = "sending")
              => (order = <<>> \/ Head(order) = c)]_vars

\* C4: under FairSpec every caller inside acquire is eventually dispatched.
EveryCallerDispatched ==
    \A c \in Callers : (pc[c] \in {"parked", "woken", "sleeping"}) ~> (pc[c] = "sending")

\* C4, the part that holds: a parked caller does not stay parked for ever
\* (every release wakes the head of the queue, so no wake-up is lost).
ParkedCallerWoken ==
    \A c \in Callers : (pc[c] = "parked") ~> (pc[c] # "parked")

\* the attempt of c that was in flight ends in this step by its timeout
TimedOutStep(c) ==
    /\ pc[c] = "sending"
    /\ pc'[c] \in {"backoff", "settled"}
    /\ Len(seen'[c]) = Len(seen[c]) + 1
    /\ seen'[c][Len(seen'[c])].error = TimedOut

\* release runs in this step
ReleaseStep == \E c \in Callers : releases'[c] = releases[c] + 1

\* what a step may do to the callers other than c: nothing, except that the
\* head of the wait queue goes from parked to woken
OthersUntouched(c) ==
    \A d \in Callers \ {c} :
        /\ attempt'[d] = attempt[d] /\ lastError'[d] = lastError[d]
        /\ result'[d] = result[d] /\ timer'[d] = timer[d]
        /\ sent'[d] = sent[d] /\ backoffs'[d] = backoffs[d]
        /\ seen'[d] = seen[d] /\ releases'[d] = releases[d]
        /\ \/ pc'[d] = pc[d]
           \/ /\ pc'[c] = "settled"
              /\ waiters # <<>> /\ d = Head(waiters)
              /\ pc[d] = "parked" /\ pc'[d] = "woken"

\* C5: a call holds its slot from dispatch to the exit of its operation and
\* releases it exactly once, however the operation exits; active is the
\* number of calls holding a slot, so every release takes it down by exactly
\* one; a release wakes nobody but the head of the wait queue; and a
\* timed-out attempt leaves every other call as it was (when the call goes on
\* to retry, the limiter too).
ReleaseExactlyOnce ==
    /\ [](/\ active = Cardinality(Holding)
          /\ \A c \in Callers :
                releases[c] = IF pc[c] = "settled" THEN 1 ELSE 0)
    /\ [][/\ ReleaseStep =>
                /\ active = active' + 1
                /\ \/ waiters' = waiters
                   \/ waiters # <<>> /\ waiters' = Tail(waiters)
                /\ \A c \in Callers :
                      (pc[c] = "parked" /\ pc'[c] # "parked") => c = Head(waiters)
          /\ \A c \in Callers :
                TimedOutStep(c) =>
                    /\ OthersUntouched(c)
                    /\ pc'[c] = "backoff" => UNCHANGED limiterVars]_vars

\* C5 witness: a call whose attempt was cancelled by the timeout has settled
\* and released, and the release has woken the head waiter
TimedOutCallReleased ==
    \E c, d \in Callers :
        /\ pc[c] = "settled"
        /\ result[c] = [ok |-> FALSE, error |-> TimedOut]
        /\ releases[c] = 1
        /\ pc[d] = "woken"
        /\ waiters # <<>>

\* every attempt the current call of c has made failed with a retryable error
AllAttemptsRetryable(c) ==
    /\ Len(seen[c]) = sent[c]
    /\ \A i \in 1 .. Len(seen[c]) : seen[c][i].error.fdc /\ seen[c][i].error.retryable

\* C6: a settled call whose every attempt failed with a retryable error made
\* maxRetries + 1 attempts and maxRetries backoff waits, and settled with the
\* error of its last attempt.
RetriesExhausted ==
    \A c \in Callers :
        (pc[c] = "settled" /\ AllAttemptsRetryable(c)) =>
            /\ sent[c] = maxRetries + 1
            /\ backoffs[c] = maxRetries
            /\ result[c] = [ok |-> FALSE, error |-> seen[c][Len(seen[c])].error]

\* C6 witness: retries were allowed, every attempt failed retryably, and the
\* last attempt failed otherwise than the first
RetriedToTheEnd ==
    \E c \in Callers :
        /\ pc[c] = "settled"
        /\ AllAttemptsRetryable(c)
        /\ maxRetries >= 1
        /\ seen[c][1].error # seen[c][Len(seen[c])].error

\* C7: an attempt that fails with a non-retryable error is the last one of
\* its call: the call settles in that very step with that error, with no
\* backoff wait after it (so a call whose first attempt fails that way makes
\* exactly one attempt), whatever the attempt index and maxRetries.
NonRetryableEndsCall ==
    \A c \in Callers :
        \A i \in 1 .. Len(seen[c]) :
            (seen[c][i].error.fdc /\ ~seen[c][i].error.retryable) =>
                /\ i = Len(seen[c])
                /\ pc[c] = "settled"
                /\ result[c] = [ok |-> FALSE, error |-> seen[c][i].error]
                /\ sent[c] = i
                /\ backoffs[c] = i - 1

\* C7 witness: retries were left, and the first attempt failed with a 404
FirstAttemptNotFound ==
    \E c \in Callers :
        /\ maxRetries >= 1
        /\ pc[c] = "settled"
        /\ sent[c] = 1
        /\ result[c].error.status = 404

\* a 2xx response whose body is not JSON
MalformedOk(resp) ==
    resp.kind = "http" /\ ResponseOk(resp.status) /\ resp.body.form = "malformed"

\* C8: an attempt that ends with a 2xx response and a malformed body fails
\* with a non-retryable error and is the last attempt of its call.
MalformedBodyNotRetried ==
    \A c \in Callers :
        \A i \in 1 .. Len(seen[c]) :
            MalformedOk(seen[c][i].resp) =>
                /\ ~seen[c][i].error.retryable
                /\ i = Len(seen[c])
                /\ pc[c] = "settled"

\* C9: shouldRetry(error, n) is true exactly when n < maxRetries and the
\* error is retryable.
ShouldRetryExact ==
    probe.fn = "shouldRetry" =>
        probe.retry = (probe.n < maxRetries /\ probe.error.retryable)

\* C9 witness: shouldRetry has answered true
ShouldRetrySaidYes ==
    /\ probe.fn = "shouldRetry"
    /\ probe.retry
    /\ probe.error.retryable
    /\ probe.n < maxRetries

\* C10: a non-2xx response with status s makes sendOnce throw an error with
\* status s that is retryable exactly when s = 429 or 500 <= s < 600; a
\* timeout and a transport-level failure make it throw a retryable error.
FailuresClassified ==
    probe.fn = "sendOnce" =>
        /\ (probe.resp.kind = "http" /\ ~ResponseOk(probe.resp.status)) =>
              /\ ~probe.ok
              /\ probe.error.status = probe.resp.status
              /\ probe.error.retryable =
                    (probe.resp.status = 429
                       \/ (500 <= probe.resp.status /\ probe.resp.status < 600))
        /\ (probe.resp.kind \in {"abort", "network"}
              \/ (probe.resp.kind = "http" /\ ResponseOk(probe.resp.status)
                    /\ probe.resp.body.form = "aborted")) =>
              /\ ~probe.ok
              /\ probe.error.retryable

\* C10 witness: a 500 response has been classified retryable
ServerErrorClassified ==
    /\ probe.fn = "sendOnce"
    /\ probe.resp.kind = "http"
    /\ probe.resp.status = 500
    /\ probe.error.status = 500
    /\ probe.error.retryable

\* sendOnce has been applied to a 2xx response whose body is an error envelope
EnvelopeProbed ==
    /\ probe.fn = "sendOnce"
    /\ probe.resp.kind = "http"
    /\ ResponseOk(probe.resp.status)
    /\ probe.resp.body.form = "envelope"

\* the status an envelope counts with: its own or, absent one, the HTTP status
EnvelopeStatus ==
    IF probe.resp.body.status # 0 THEN probe.resp.body.status ELSE probe.resp.status

\* C11 as stated: a 2xx response whose body is an error envelope is never
\* returned as a result; sendOnce throws an error that is retryable exactly
\* when the envelope's status (or, absent one, the HTTP status) is 429 or in
\* 500..599.
EnvelopeRetryableByStatusOnly ==
    EnvelopeProbed =>
        /\ ~probe.ok
        /\ probe.error.retryable =
              (EnvelopeStatus = 429 \/ (500 <= EnvelopeStatus /\ EnvelopeStatus < 600))

\* C11 amended: a 2xx response whose body is an error envelope is never
\* returned as a result; sendOnce throws an error carrying the envelope's
\* status (or, absent one, the HTTP status) that is retryable exactly when the
\* envelope's code is OVER_RATE_LIMIT or that status is 429 or in 500..599.
EnvelopeRaisedAndClassified ==
    EnvelopeProbed =>
        /\ ~probe.ok
        /\ probe.error.fdc
        /\ probe.error.status = EnvelopeStatus
        /\ probe.error.retryable =
              (probe.resp.body.code = "OVER_RATE_LIMIT"
                 \/ EnvelopeStatus = 429
                 \/ (500 <= EnvelopeStatus /\ EnvelopeStatus < 600))

\* C11 witness: a 200 response whose envelope carries status 503 and no
\* rate-limit code was thrown as a retryable error with status 503
EnvelopeServerErrorRaised ==
    /\ EnvelopeProbed
    /\ probe.resp.status = 200
    /\ probe.resp.body.status = 503
    /\ probe.resp.body.code # "OVER_RATE_LIMIT"
    /\ ~probe.ok
    /\ probe.error.status = 503
    /\ probe.error.retryable

\* ------------------------------------------------------------------------
\* Properties of getFood and fetchFoodWithAlias
\* ------------------------------------------------------------------------

\* the identifier the i-th getFood call of the tool call was made for
AskedId(i) == upstream[i].fdcIds[1]

\* the i-th getFoods request ended with a batch that holds no record of id
BatchOmits(i, id) ==
    /\ replies[i].kind \in {"array", "wrapped", "empty"}
    /\ \A j \in 1 .. Len(replies[i].foods) : replies[i].foods[j].fdcId # id

\* C12: getFood(id) never returns a record for another identifier: whenever
\* the batch of its getFoods request holds no record of id (it is empty or
\* holds only other records), getFood throws a non-retryable error with
\* status 404.
GetFoodNeverAnotherRecord ==
    \A i \in 1 .. Len(got) :
        /\ got[i].ok => got[i].food.fdcId = AskedId(i)
        /\ BatchOmits(i, AskedId(i)) =>
              /\ ~got[i].ok
              /\ got[i].error.status = 404
              /\ ~got[i].error.retryable

\* the getFood of the requested id has failed with status 404
FirstFetchNotFound ==
    /\ Len(got) >= 1
    /\ ~got[1].ok
    /\ got[1].error.status = 404

\* the alias table has an entry for the requested id
HasAliasEntry == \E a \in FDC_ID_ALIASES : a.requestedId = task.fdcIds[1]

\* C13: fetchFoodWithAlias consults the alias table only when the fetch of
\* the requested id failed with status 404, and then once, for that id; on a
\* hit it fetches the replacement id with the same format and nutrient filter
\* and returns the record of that fetch annotated with requestedId,
\* replacementId and rationale; a failure of the replacement fetch is thrown
\* as it is, with no second alias lookup and no third request.
AliasOnlyOnNotFound ==
    task.tool = "get_food" =>
        /\ Len(lookups) <= 1 /\ Len(upstream) <= 2
        /\ lookups # <<>> => (FirstFetchNotFound /\ lookups = <<task.fdcIds[1]>>)
        /\ (Len(got) >= 1 /\ ~FirstFetchNotFound) => (lookups = <<>> /\ Len(upstream) = 1)
        /\ Len(upstream) = 2 =>
              /\ FirstFetchNotFound
              /\ \E a \in FDC_ID_ALIASES :
                    /\ a.requestedId = task.fdcIds[1]
                    /\ upstream[2] = [fdcIds |-> <<a.replacementId>>,
                                      format |-> task.format,
                                      nutrients |-> task.nutrients]
        /\ (FirstFetchNotFound /\ HasAliasEntry) => Len(upstream) = 2
        /\ Len(got) = 2 =>
              /\ outcome.done
              /\ IF got[2].ok
                 THEN /\ outcome.ok
                      /\ outcome.food = got[2].food
                      /\ outcome.resolvedFdcId = AskedId(2)
                      /\ outcome.aliasInfo.requestedId = task.fdcIds[1]
                      /\ outcome.aliasInfo.alias \in FDC_ID_ALIASES
                      /\ outcome.aliasInfo.alias.requestedId = task.fdcIds[1]
                      /\ outcome.aliasInfo.alias.replacementId = AskedId(2)
                 ELSE /\ ~outcome.ok
                      /\ outcome.error = got[2].error
        /\ (outcome.done /\ Len(got) = 1 /\ outcome.ok) =>
              /\ outcome.food = got[1].food
              /\ outcome.aliasInfo = NoAliasInfo

\* C13 witness: the retired id was asked for in full format with a nutrient
\* filter, its fetch found nothing, and the replacement's record was returned
\* with its provenance
ReplacementReturned ==
    /\ task.tool = "get_food"
    /\ task.format = "full" /\ task.nutrients # {}
    /\ outcome.done /\ outcome.ok
    /\ Len(got) = 2
    /\ outcome.aliasInfo.requestedId = 4053
    /\ outcome.aliasInfo.alias.replacementId = 748608
    /\ upstream[2].format = "full" /\ upstream[2].nutrients = task.nutrients

\* C14: when the fetch of the requested id fails with status 404 and the
\* alias table has no entry for that id, fetchFoodWithAlias throws the very
\* error the fetch failed with (same status, same message) and has issued no
\* other request.
NotFoundWithoutAliasRethrown ==
    (task.tool = "get_food" /\ FirstFetchNotFound /\ ~HasAliasEntry) =>
        /\ outcome.done
        /\ ~outcome.ok
        /\ outcome.error = got[1].error
        /\ outcome.error.status = 404
        /\ Len(upstream) = 1

\* C14 witness: an id without alias entry was answered with HTTP 404, and
\* the transport's error came out of fetchFoodWithAlias
UpstreamNotFoundRethrown ==
    /\ task.tool = "get_food"
    /\ ~HasAliasEntry
    /\ outcome.done
    /\ replies = <<[kind |-> "error", error |-> FoodDataCentralError("http", 404, FALSE),
                    foods |-> <<>>]>>
    /\ outcome.error = FoodDataCentralError("http", 404, FALSE)
    /\ lookups = <<task.fdcIds[1]>>

\* ------------------------------------------------------------------------
\* Properties of the get-foods tool
\* ------------------------------------------------------------------------

\* a get-foods call that was no dry run has returned its result
BulkDone ==
    task.tool = "get-foods" /\ outcome.done /\ outcome.ok /\ ~outcome.response.dryRun

\* the records of the batch the i-th request of the tool call ended with
BatchOf(i) == IF i <= Len(replies) THEN replies[i].foods ELSE <<>>

\* the identifiers the records of a batch carry
IdsIn(batch) == { batch[i].fdcId : i \in 1 .. Len(batch) } \ {0}

\* the requested ids absent from the initial batch that have an alias entry
MissingWithAlias ==
    { id \in Range(task.fdcIds) :
        /\ id \notin IdsIn(BatchOf(1))
        /\ \E a \in FDC_ID_ALIASES : a.requestedId = id }

\* the replacement the alias table gives for id
ReplacementOf(id) == (CHOOSE a \in FDC_ID_ALIASES : a.requestedId = id).replacementId

\* the ids that were requested as something else and answered by the record r
\* of the follow-up batch
RequestedAs(r) ==
    { id \in MissingWithAlias : r.fdcId # 0 /\ ReplacementOf(id) = r.fdcId }

\* C15: when a get-foods call returns, every requested id absent from the
\* initial batch that has an alias entry had its replacement asked for in the
\* follow-up request; the merged result holds every record of the initial
\* batch and the record of every replacement id the follow-up returned; for
\* each of those there is an alias note naming the requested id and the
\* replacement's record, and the summary of the replacement's record lists in
\* requestedFdcIds exactly the ids it was requested as.
AliasesMergedWithProvenance ==
    BulkDone =>
        /\ \A id \in MissingWithAlias :
              /\ Len(upstream) = 2
              /\ ReplacementOf(id) \in Range(upstream[2].fdcIds)
        /\ Range(BatchOf(1)) \subseteq Range(outcome.foods)
        /\ \A r \in Range(BatchOf(2)) :
              RequestedAs(r) # {} =>
                 /\ r \in Range(outcome.foods)
                 /\ \A id \in RequestedAs(r) :
                       \E n \in Range(outcome.notes) :
                          /\ n.requestedId = id
                          /\ n.substituted = r
                          /\ n.rationale = (CHOOSE a \in FDC_ID_ALIASES :
                                               a.requestedId = id).rationale
        /\ Len(outcome.summaries) = Len(outcome.foods)
        /\ \A i \in 1 .. Len(outcome.foods) :
              /\ outcome.summaries[i].fdcId = outcome.foods[i].fdcId
              /\ outcome.summaries[i].requestedFdcIds =
                    { id \in MissingWithAlias :
                        /\ outcome.foods[i].fdcId # 0
                        /\ ReplacementOf(id) = outcome.foods[i].fdcId
                        /\ ReplacementOf(id) \in IdsIn(BatchOf(2)) }

\* C15 witness: the retired id and another id were requested, the initial
\* batch held only the other id's record, and the merged result holds that
\* record and the replacement's, whose summary points back to the retired id
ReplacementMerged ==
    /\ BulkDone
    /\ task.fdcIds = <<4053, 1000>>
    /\ IdsIn(BatchOf(1)) = {1000}
    /\ Len(outcome.foods) = 2
    /\ outcome.foods[1].fdcId = 1000
    /\ outcome.foods[2].fdcId = 748608
    /\ outcome.summaries[2].requestedFdcIds = {4053}
    /\ Len(outcome.notes) = 1

\* the initial batch followed by the follow-up batch
BothBatches == BatchOf(1) \o BatchOf(2)

\* the positions of BothBatches that hold the first record of their identifier
\* (or a record without identifier)
FirstOccurrences ==
    { i \in 1 .. Len(BothBatches) :
        \/ BothBatches[i].fdcId = 0
        \/ \A j \in 1 .. i - 1 : BothBatches[j].fdcId # BothBatches[i].fdcId }

\* the k-th smallest member of a set of positions
KthOf(positions, k) ==
    CHOOSE i \in positions : Cardinality({ j \in positions : j <= i }) = k

\* C16: a get-foods call makes at most one follow-up request, and makes it
\* only when the initial request succeeded and some missing id has an alias
\* entry; the follow-up names the replacement ids of those missing ids, each
\* once; the merged result never holds two records with the same identifier:
\* it is made of the first occurrences, the initial batch before the
\* follow-up, in their order.
OneFollowupFirstKept ==
    task.tool = "get-foods" =>
        /\ Len(upstream) <= 2
        /\ Len(upstream) = 2 <=>
              (/\ Len(replies) >= 1
               /\ replies[1].kind # "error" /\ replies[1].kind # "other"
               /\ MissingWithAlias # {})
        /\ Len(upstream) = 2 =>
              /\ Range(upstream[2].fdcIds) = { ReplacementOf(id) : id \in MissingWithAlias }
              /\ \A i, j \in 1 .. Len(upstream[2].fdcIds) :
                    upstream[2].fdcIds[i] = upstream[2].fdcIds[j] => i = j
        /\ BulkDone =>
              /\ \A i, j \in 1 .. Len(outcome.foods) :
                    (outcome.foods[i].fdcId # 0
                        /\ outcome.foods[i].fdcId = outcome.foods[j].fdcId) => i = j
              /\ Len(outcome.foods) = Cardinality(FirstOccurrences)
              /\ \A k \in 1 .. Len(outcome.foods) :
                    outcome.foods[k] = BothBatches[KthOf(FirstOccurrences, k)]

\* C16 witness: the retired id was requested twice, the initial batch held
\* the replacement's record twice, the one follow-up request named the
\* replacement once and returned its record again, and one record was kept
DuplicatesDropped ==
    /\ BulkDone
    /\ task.fdcIds = <<4053, 4053>>
    /\ Len(upstream) = 2
    /\ upstream[2].fdcIds = <<748608>>
    /\ Len(BatchOf(1)) = 2
    /\ IdsIn(BatchOf(1)) = {748608}
    /\ IdsIn(BatchOf(2)) = {748608}
    /\ Len(outcome.foods) = 1

\* ------------------------------------------------------------------------
\* Properties of the nutrient resolution
\* ------------------------------------------------------------------------

\* the requests made for the requested id itself, one per attempt issued
AttemptRequests ==
    SelectSeq(upstream, LAMBDA u : u.fdcIds = <<task.fdcIds[1]>>)

\* the i-th attempt fetched a record that has an amount for every requested key
MatchesAll(i) == tried[i].res.ok /\ task.keys \subseteq tried[i].res.food.has

\* C17: fetchFoodForNutrients issues its attempts strictly in list order (the
\* k-th request for the requested id carries the format and filter of the
\* k-th attempt) and returns at the first attempt whose record matches every
\* requested key, with that record and those matches; no attempt is issued
\* after it.
AttemptsInOrderStopAtFullMatch ==
    ResolvingNutrients =>
        /\ Len(AttemptRequests) <= Len(AttemptsFor(task.keys))
        /\ \A k \in 1 .. Len(AttemptRequests) :
              /\ AttemptRequests[k].format = AttemptsFor(task.keys)[k].format
              /\ AttemptRequests[k].nutrients = AttemptsFor(task.keys)[k].nutrients
        /\ \A i \in 1 .. Len(tried) : tried[i].index = i
        /\ Len(tried) <= Len(AttemptRequests)
        /\ \A i \in 1 .. Len(tried) :
              MatchesAll(i) =>
                 /\ i = Len(tried)
                 /\ Len(AttemptRequests) = i
                 /\ outcome.done /\ outcome.ok
                 /\ outcome.food = tried[i].res.food
                 /\ outcome.matches = task.keys

\* C17 witness: protein alone was asked for, the first (filtered) attempt's
\* record has it, and that one request is all that was issued
FirstAttemptSufficed ==
    /\ task.tool = "get_protein"
    /\ Len(AttemptsFor(task.keys)) = 3
    /\ Len(tried) = 1
    /\ MatchesAll(1)
    /\ Len(upstream) = 1
    /\ outcome.done /\ outcome.matches = {"protein"}

\* C18: when the resolution is over, no attempt has matched every requested
\* key and none has thrown, fetchFoodForNutrients has made every attempt and
\* has returned the record of the last one with the matches found in that
\* record, and only those.
LastAttemptReturned ==
    (/\ ResolvingNutrients
     /\ tried # <<>>
     /\ \A i \in 1 .. Len(tried) : tried[i].res.ok /\ ~MatchesAll(i)
     /\ \/ outcome.done
        \/ Len(tried) = Len(AttemptsFor(task.keys))) =>
        /\ Len(tried) = Len(AttemptsFor(task.keys))
        /\ outcome.done /\ outcome.ok
        /\ outcome.food = tried[Len(tried)].res.food
        /\ outcome.matches = tried[Len(tried)].res.food.has \cap task.keys

\* C18 witness: both macros were asked for, the second attempt's record had
\* protein only, the third's fat only, and fat alone is in the result
PartialLastAttemptReturned ==
    /\ task.tool = "get_macros"
    /\ Len(tried) = 3
    /\ \A i \in 1 .. 3 : tried[i].res.ok
    /\ tried[2].res.food.has = {"protein"}
    /\ tried[3].res.food.has = {"fat"}
    /\ outcome.done /\ outcome.ok
    /\ outcome.matches = {"fat"}

\* the i-th attempt carried a nutrient-id filter and failed with status 400
FilteredBadRequest(i) ==
    /\ ~tried[i].res.ok
    /\ tried[i].res.error.status = 400
    /\ tried[i].options.nutrients # {}

\* C19: an attempt that carries a nutrient-id filter and fails with status
\* 400 does not end the resolution: the next attempt is issued; an attempt
\* that fails in any other way (another status, or a 400 without filter) is
\* the last one: fetchFoodForNutrients throws that error and issues no
\* further request.
OnlyFilteredBadRequestSkipped ==
    ResolvingNutrients =>
        \A i \in 1 .. Len(tried) :
            /\ FilteredBadRequest(i) => Len(AttemptRequests) >= i + 1
            /\ (~tried[i].res.ok /\ ~FilteredBadRequest(i)) =>
                  /\ i = Len(tried)
                  /\ Len(AttemptRequests) = i
                  /\ spc = "done"
                  /\ outcome.done /\ ~outcome.ok
                  /\ outcome.error = tried[i].res.error

\* C19 witness: the filtered attempt failed with 400 and was skipped, the
\* unfiltered one after it failed with 400 too and ended the resolution
SkippedThenAborted ==
    /\ ResolvingNutrients
    /\ Len(tried) = 2
    /\ FilteredBadRequest(1)
    /\ tried[2].options.nutrients = {}
    /\ tried[2].res.error.status = 400
    /\ outcome.done /\ ~outcome.ok
    /\ outcome.error.status = 400

\* C20: whatever the tool and its keys, a resolution that returns a
\* Foundation record and leaves a requested core macro unmatched makes the
\* tool fail; the tool never returns a partial result for it.
FoundationMacroGapFails ==
    (/\ ResolvingNutrients
     /\ outcome.done /\ outcome.ok
     /\ IsFoundation(outcome.food)
     /\ (task.keys \cap macroNutrientKeys) \ outcome.matches # {}) =>
        ~outcome.toolOk

\* ------------------------------------------------------------------------
\* Properties of the micronutrient tools
\* ------------------------------------------------------------------------

\* a tool that lists micronutrients has got its resolution back
MicrosResolved ==
    /\ task.tool \in { t.tool : t \in MicroTools }
    /\ outcome.done /\ outcome.ok

\* C21: an unmatched micronutrient key never makes the tool fail, whatever
\* the record's dataType: a resolution with every requested macro matched
\* makes the tool return; every key without a match is reported as missing
\* and has no value in the result; and a value of 0 in the result comes from
\* an upstream entry whose amount was 0.
UnmatchedMicrosOnlyMissing ==
    MicrosResolved =>
        /\ (task.keys \cap macroNutrientKeys) \subseteq outcome.matches => outcome.toolOk
        /\ \A key \in task.keys \ outcome.matches :
              /\ key \in outcome.missing
              /\ ~outcome.values[key].valuePer100g.defined
        /\ \A key \in task.keys \cap microNutrientKeys :
              (/\ outcome.values[key].valuePer100g.defined
               /\ outcome.values[key].valuePer100g.value = 0) =>
                  outcome.food.iron.amount \in {"num0", "str0"}

\* ------------------------------------------------------------------------
\* Properties of the cursor codec
\* ------------------------------------------------------------------------

\* decodeCursor has been applied to the encoding of whole numbers page >= 1
\* and size >= 1
WholeRoundTrip ==
    /\ probe.fn = "decodeCursor"
    /\ probe.from = "encodeCursor"
    /\ probe.page.frac = 0 /\ probe.page.int >= 1
    /\ probe.size.frac = 0 /\ probe.size.int >= 1

\* C22 as stated: for every tool and all integers p >= 1 and s >= 1,
\* decodeCursor(encodeCursor(tool, p, s), tool) returns {page: p, size: s}.
RoundTripAnySize ==
    (WholeRoundTrip /\ probe.expectedTool = probe.tool) =>
        /\ probe.result.ok
        /\ probe.result.page = probe.page.int
        /\ probe.result.size = probe.size.int

\* C22 amended: for every tool and all integers p >= 1 and s >= 1,
\* decodeCursor(encodeCursor(tool, p, s), tool) returns page p and the size s
\* when s <= 200, the size 200 otherwise.
RoundTripUpToMaxSize ==
    (WholeRoundTrip /\ probe.expectedTool = probe.tool) =>
        /\ probe.result.ok
        /\ probe.result.page = probe.page.int
        /\ probe.result.size = IF probe.size.int <= 200 THEN probe.size.int ELSE 200

\* C22 witness: page 12 and size 25 came back from a list-foods cursor
RoundTripDone ==
    /\ WholeRoundTrip
    /\ probe.tool = "list-foods" /\ probe.expectedTool = "list-foods"
    /\ probe.page.int = 12 /\ probe.size.int = 25
    /\ probe.result.ok
    /\ probe.result.page = 12 /\ probe.result.size = 25

\* C23: a cursor encoded for one tool and decoded for another makes
\* decodeCursor throw, whatever the page and the size it was encoded with.
OtherToolRejected ==
    (/\ probe.fn = "decodeCursor"
     /\ probe.from = "encodeCursor"
     /\ probe.expectedTool # probe.tool) =>
        /\ ~probe.result.ok
        /\ probe.result.error # NoCursorError

\* C23 witness: a search-foods cursor was refused by list-foods for its tool
SearchCursorRefusedByList ==
    /\ probe.fn = "decodeCursor"
    /\ probe.from = "encodeCursor"
    /\ probe.tool = "search-foods" /\ probe.expectedTool = "list-foods"
    /\ probe.page.int >= 1 /\ probe.size.int >= 1
    /\ probe.cause.message = "Cursor tool mismatch."
    /\ ~probe.result.ok

\* C24: whatever makes decodeCursor fail (a text that is not JSON, another
\* tool, a page that is absent, not a number or below 1), it throws the same
\* error, made of the expected tool's name alone.
FailuresUniform ==
    (probe.fn = "decodeCursor" /\ probe.cause # NoCursorError) =>
        /\ ~probe.result.ok
        /\ probe.result.error =
              [message |-> "Invalid pagination cursor for", tool |-> probe.expectedTool]

\* C24 witness: a cursor written by hand whose page is a string failed
\* inside decodeCursor for its page and came out as the uniform error
BadPageCollapsed ==
    /\ probe.fn = "decodeCursor"
    /\ probe.from = "client"
    /\ probe.damage = "none"
    /\ probe.payload.page.type = "string"
    /\ probe.cause.message = "Cursor page missing or invalid."
    /\ probe.result.error.message = "Invalid pagination cursor for"
    /\ probe.result.error.tool = probe.expectedTool

\* decodeCursor has been applied to an undamaged cursor whose payload has the
\* expected tool and a page that is a finite number >= 1
ValidToolAndPage ==
    /\ probe.fn = "decodeCursor"
    /\ probe.from = "client"
    /\ probe.damage = "none"
    /\ probe.payload.tool.type = "string"
    /\ probe.payload.tool.str = probe.expectedTool
    /\ probe.payload.page.type = "number"
    /\ probe.payload.page.num.finite
    /\ probe.payload.page.num.int >= 1

\* the size of the payload is absent or is not a finite number >= 1
SizeUnusable ==
    \/ probe.payload.size.type # "number"
    \/ ~probe.payload.size.num.finite
    \/ probe.payload.size.num.int < 1

\* C25: a cursor whose payload has the expected tool and a valid page but a
\* size that is absent or not a finite number >= 1 is decoded with the
\* expected tool's default page size (25 for search-foods, 50 for
\* list-foods); every successful decode yields a page >= 1 and a size in
\* 1 .. 200, both whole.
DefaultSizeSubstituted ==
    /\ (ValidToolAndPage /\ SizeUnusable) =>
          /\ probe.result.ok
          /\ probe.result.size = IF probe.expectedTool = "search-foods" THEN 25 ELSE 50
    /\ (probe.fn = "decodeCursor" /\ probe.result.ok) =>
          /\ probe.result.page \in Nat /\ probe.result.page >= 1
          /\ probe.result.size \in 1 .. 200

\* C25 witness: a search-foods cursor without size and with page 2.5 was
\* decoded as page 2 with size 25
SearchDefaultUsed ==
    /\ ValidToolAndPage
    /\ probe.expectedTool = "search-foods"
    /\ probe.payload.size.type = "undefined"
    /\ probe.payload.page.num.frac = 5
    /\ probe.result.ok
    /\ probe.result.page = 2
    /\ probe.result.size = 25

\* ------------------------------------------------------------------------
\* Properties of the backoff
\* ------------------------------------------------------------------------

RetryAfterIgnored ==
    probe.fn = "catch" =>
        /\ probe.decision = probe.unhinted
        /\ probe.header.form \in {"seconds", "date"} =>
              /\ probe.error.retryAfterMs.defined
              /\ probe.error.retryAfterMs.value = probe.header.seconds * 1000
        /\ probe.header.form \notin {"seconds", "date"} =>
              ~probe.error.retryAfterMs.defined

\* C27 witness: a 429 asked for a wait of two seconds; the error carries
\* 2000 ms and the call retries after a shorter backoff
HintLongerThanBackoff ==
    /\ probe.fn = "catch"
    /\ probe.status = 429
    /\ probe.header = [form |-> "seconds", seconds |-> 2]
    /\ probe.error.retryAfterMs.value = 2000
    /\ probe.decision.retry
    /\ probe.decision.backoffMs < 2000

\* ------------------------------------------------------------------------
\* Properties of the spacing of attempts
\* ------------------------------------------------------------------------

\* C28: every sendOnce call made through the client, the first of a call or
\* a retry, begins at least minDelayMs after the sendOnce call before it.
\* (A backoff delay may end at any time: with the default options the
\* shortest one, 375 ms, is below the default minDelayMs of 400 ms.)
AttemptsSpaced ==
    [][(\E c \in Callers : sent'[c] > sent[c]) => sinceSend >= minDelayMs]_vars

\* ------------------------------------------------------------------------
\* Properties of the attempts of fetchFoodForNutrients
\* ------------------------------------------------------------------------

AttemptListExact ==
    ResolvingNutrients =>
        \A keys \in (SUBSET task.keys) \ {{}} :
            LET attempts == AttemptList(keys)
                filter == attempts[1].nutrients
            IN  /\ Len(attempts) = 3
                /\ attempts[1].format = "abridged"
                /\ Range(filter) = UNION { NutrientIds(key) : key \in keys }
                /\ \A i \in 1 .. Len(filter) - 1 : filter[i] < filter[i + 1]
                /\ attempts[2] = [format |-> "full", nutrients |-> <<>>]
                /\ attempts[3] = [format |-> "abridged", nutrients |-> <<>>]
                /\ \A i \in 1 .. 3 : \A j \in 1 .. 3 :
                      (/\ attempts[i].format = attempts[j].format
                       /\ Range(attempts[i].nutrients) = Range(attempts[j].nutrients))
                          => i = j

\* C30 witness: get_macro_micros went through its three attempts, the first
\* filtered by the seven ids of its keys in ascending order
AllThreeAttemptsMade ==
    /\ task.tool = "get_macro_micros"
    /\ AttemptList(task.keys)[1].nutrients = <<203, 204, 303, 1003, 1004, 1085, 1089>>
    /\ Len(upstream) = 3
    /\ upstream[1].format = "abridged"
    /\ upstream[1].nutrients = {203, 204, 303, 1003, 1004, 1085, 1089}
    /\ upstream[2].format = "full" /\ upstream[2].nutrients = {}
    /\ upstream[3].format = "abridged" /\ upstream[3].nutrients = {}

\* ------------------------------------------------------------------------
\* Properties of collectNutrients
\* ------------------------------------------------------------------------

\* the entry's amount (the field amount or value) is a number
HasNumericAmount(entry) == toFiniteNumber(entry.amount).defined

\* the entries of the scanned list that carry a numeric amount and whose
\* resolved id or resolved name belongs to key
MatchingEntries(key) ==
    { i \in 1 .. Len(probe.nutrients) :
        /\ HasNumericAmount(probe.nutrients[i])
        /\ \/ /\ resolveNutrientId(probe.nutrients[i]).defined
              /\ resolveNutrientId(probe.nutrients[i]).value \in NutrientIds(key)
           \/ /\ resolveNutrientName(probe.nutrients[i]) # "undefined"
              /\ resolveNutrientName(probe.nutrients[i]) \in NutrientNames(key) }

\* C31: the structured scan matches a requested key exactly when some entry
\* with a numeric amount has a resolved id in the key's id set or a resolved
\* name in its name set, and the match holds the amount of the first such
\* entry of the list.
FirstMatchingEntryWins ==
    probe.fn = "scan" =>
        \A key \in probe.keys :
            /\ (\E m \in probe.results : m.key = key) <=> MatchingEntries(key) # {}
            /\ \A m \in probe.results :
                  m.key = key =>
                      \A i \in MatchingEntries(key) :
                          (\A j \in MatchingEntries(key) : i <= j) =>
                              m.value = toFiniteNumber(probe.nutrients[i].amount).value

\* the label field whose stripped name is that of the candidate, if any
FieldsFor(candidate) ==
    { i \in 1 .. Len(probe.label.fields) :
        normalizeLabelKey(probe.label.fields[i].key) = normalizeLabelKey(candidate) }

\* the label block holds a value that coerces to a number for the candidate
HoldsNumber(candidate) ==
    \E i \in FieldsFor(candidate) :
        resolveLabelNutrientAmount(probe.label.fields[i].value).defined

UnmatchedMacros == macroNutrientKeys \ outcome.matches

\* a tool that asks for all the macros has its resolution back, some macro
\* is unmatched, and its handler has returned or thrown
PolicyCase ==
    /\ task.tool \in {"get_macros", "get_macro_micros", "macros_for_portion"}
    /\ spc = "done"
    /\ outcome.done /\ outcome.ok
    /\ UnmatchedMacros # {}

\* the dataType is Foundation once trimmed and lower-cased
SpelledFoundation(food) == food.dataType \in {"Foundation", " FOUNDATION "}

PortionFound ==
    /\ got # <<>>
    /\ got[Len(got)].ok
    /\ outcome.portions > (IF task.portion = "index0" THEN 0 ELSE 1)

\* the record whose dataType the handler looks at
PolicyRecord ==
    IF task.tool = "macros_for_portion" THEN got[Len(got)].food ELSE outcome.food

ReturnedAttempt ==
    tried[CHOOSE i \in DOMAIN tried :
              /\ tried[i].res.ok
              /\ \A j \in DOMAIN tried : j > i => ~tried[j].res.ok]

\* C34: a resolution that returns carries aliasInfo exactly when the record
\* it returns was fetched under the replacement identifier.
ProvenanceOnlyForSubstitute ==
    (ResolvingNutrients /\ spc = "done" /\ outcome.done /\ outcome.ok) =>
        (outcome.aliasInfo # NoAliasInfo
            <=> ReturnedAttempt.res.resolvedFdcId # task.fdcIds[1])

\* ------------------------------------------------------------------------
\* Properties of the get-foods response
\* ------------------------------------------------------------------------

\* the ids the response accounts for: those of the records and summaries it
\* carries, those its alias notes report as substituted, and those its
\* "USDA did not return" note spells out
AccountedIds ==
    { extractFdcId(f) : f \in Range(outcome.response.foods) }
        \cup { p.fdcId : p \in Range(outcome.response.previews) }
        \cup { n.requestedId : n \in Range(outcome.response.aliasNotes) }
        \cup Range(outcome.response.didNotReturn)

\* get-foods has returned
BulkReturned ==
    /\ task.tool = "get-foods" /\ spc = "done" /\ outcome.done /\ outcome.ok
    /\ ~outcome.response.dryRun

Unsettled ==
    [settled |-> FALSE, ok |-> FALSE, food |-> NoFood, matches |-> {},
     aliasInfo |-> NoAliasInfo, error |-> NoError]

RECURSIVE ResolveAlone(_, _, _, _)
\* What fetchFoodForNutrients(fdcId, keys) comes to, run by itself, when its
\* getFood calls end in turn with results: lines 3678-3724 read top to
\* bottom with fetchFoodWithAlias (lines 3910-3930) inlined.
ResolveAlone(call, results, index, locals) ==
    LET attempts == AttemptsFor(call.keys)
        fdcId == call.fdcIds[1]
        alias == resolveFdcAlias(fdcId)
    IN  IF index > Len(attempts)
        THEN IF locals.lastResult.has
             THEN [Unsettled EXCEPT !.settled = TRUE, !.ok = TRUE,
                                    !.food = locals.lastResult.food,
                                    !.matches = locals.lastResult.matches,
                                    !.aliasInfo = locals.aliasInfo]
             ELSE [Unsettled EXCEPT !.settled = TRUE, !.error = UnableToFetch]
        ELSE IF results = <<>> THEN Unsettled
        ELSE LET first == results[1]
                 viaAlias == ~first.ok /\ AliasConsulted(first.error) /\ alias # NoAlias
             IN  IF viaAlias /\ Len(results) < 2 THEN Unsettled
                 ELSE LET fetched ==
                              IF first.ok THEN Fetched(first.food, fdcId, NoAliasInfo)
                              ELSE IF ~viaAlias THEN Threw(first.error)
                              ELSE IF results[2].ok
                              THEN Fetched(results[2].food, alias.replacementId,
                                           [requestedId |-> fdcId, alias |-> alias])
                              ELSE Threw(results[2].error)
                          rest == SubSeq(results, (IF viaAlias THEN 3 ELSE 2), Len(results))
                          matches == collectNutrients(fetched.food, call.keys)
                          aliasInfo == IF locals.aliasInfo = NoAliasInfo
                                       THEN fetched.aliasInfo
                                       ELSE locals.aliasInfo
                      IN  IF ~fetched.ok
                          THEN IF SkipAttempt(attempts[index], fetched.error)
                               THEN ResolveAlone(call, rest, index + 1, locals)
                               ELSE [Unsettled EXCEPT !.settled = TRUE,
                                                      !.error = fetched.error]
                          ELSE IF hasAllNutrientMatches(matches, call.keys)
                                    \/ index = Len(attempts)
                          THEN [Unsettled EXCEPT !.settled = TRUE, !.ok = TRUE,
                                                 !.food = fetched.food,
                                                 !.matches = matches,
                                                 !.aliasInfo = aliasInfo]
                          ELSE ResolveAlone(call, rest, index + 1,
                                            [locals EXCEPT
                                               !.aliasInfo = aliasInfo,
                                               !.lastResult = [has |-> TRUE,
                                                               food |-> fetched.food,
                                                               matches |-> matches]])

\* the call's resolution has ended as it would have by itself
EndedAsAlone(call) ==
    LET alone == ResolveAlone(call.task, call.got, 1, NoLoop)
    IN  /\ alone.settled
        /\ call.outcome.ok = alone.ok
        /\ call.outcome.food = alone.food
        /\ call.outcome.matches = alone.matches
        /\ call.outcome.aliasInfo = alone.aliasInfo
        /\ ~alone.ok => call.outcome.error = alone.error

EveryScheduledCallSettles ==
    \A c \in Callers : (pc[c] # "idle") ~> (pc[c] = "settled")

\* C37, the part that holds of the transport: a dispatched call comes to its
\* end after at most maxRetries + 1 transport attempts
DispatchedCallSettles ==
    \A c \in Callers : (pc[c] = "sending") ~> (pc[c] = "settled")

\* C37, the part that holds of the transport: at most maxRetries + 1
\* transport attempts per scheduled call
TransportAttemptsBounded ==
    \A c \in Callers : sent[c] <= maxRetries + 1

\* C37, the part that holds of the resolution: at most three attempts, and
\* at most two get calls for each attempt begun
AttemptsBounded ==
    ResolvingNutrients =>
        /\ Len(tried) <= 3
        /\ loop.index <= 4
        /\ Len(upstream) <= 2 * Min(loop.index, 3)
        /\ \A i \in DOMAIN tried : tried[i].index = i

\* ------------------------------------------------------------------------
\* Properties of paging by cursor
\* ------------------------------------------------------------------------

\* the running call was made with the nextCursor of the same tool
FollowingCursor ==
    /\ task.tool \in CursorTools
    /\ task.followed # NoWalk
    /\ task.followed.tool = task.tool

\* the tool has returned a page it asked the client for
PageServed ==
    /\ task.tool \in CursorTools
    /\ spc = "done" /\ outcome.ok /\ ~outcome.response.dryRun

\* C38, decoding: the cursor is accepted and gives the page after the one
\* just served (the page of that summary) with the page size of that request
CursorDecodesToNextPage ==
    (FollowingCursor /\ spc \in {"paging", "done"}) =>
        /\ task.pageNumber = task.followed.page + 1
        /\ task.pageSize = task.followed.pageSize

\* C38, emission: list-foods hands a nextCursor exactly when the page had
\* pageSize items, search-foods exactly when currentPage < totalPages
CursorEmittedWhenMore ==
    PageServed =>
        LET response == replies[Len(replies)]
            emitted == outcome.response.nextCursor # <<>>
        IN  IF task.tool = "list-foods"
            THEN emitted <=> response.count = task.pageSize
            ELSE emitted <=> response.currentPage < response.totalPages

\* C38: both of these, and a walk by cursor asks for strictly increasing
\* pages.
CursorWalkMovesForward ==
    /\ CursorDecodesToNextPage
    /\ CursorEmittedWhenMore
    /\ (FollowingCursor /\ spc \in {"paging", "done"})
          => task.pageNumber > task.followed.requested

\* C38, the part of the walk that holds: list-foods asks for strictly
\* increasing pages, and so does search-foods after an upstream that reports
\* the page it was asked for
CursorWalkMovesForwardWhenEchoed ==
    (FollowingCursor /\ spc \in {"paging", "done"}
        /\ (task.tool = "search-foods" => task.followed.page = task.followed.requested))
          => task.pageNumber > task.followed.requested

\* ------------------------------------------------------------------------
\* Properties of the dry run
\* ------------------------------------------------------------------------

\* the tools that take estimateOnly
DryRunTools == {"search-foods", "get-foods", "list-foods"}

\* C39: a call of search-foods, get-foods or list-foods with estimateOnly =
\* true is over in the step that takes it, without a request handed to the
\* client: nothing is sent, and active, the time since the last dispatch and
\* the wait queue are as they were; what it returns is its dry-run summary.
DryRunSendsNothing ==
    [][(spc = "idle" /\ spc' # "idle" /\ task'.tool \in DryRunTools
            /\ task'.estimateOnly = "true")
          => /\ spc' = "done"
             /\ upstream' = <<>>
             /\ UNCHANGED <<active, elapsed, waiters, sent, pc>>
             /\ outcome'.ok => outcome'.response.dryRun]_vars

\* C39 witness: list-foods, called for a dry run with the cursor of an
\* earlier page, has returned its summary and nothing was sent
DryRunOfNextPage ==
    /\ task.tool = "list-foods"
    /\ task.estimateOnly = "true"
    /\ task.followed # NoWalk
    /\ spc = "done" /\ outcome.ok /\ outcome.response.dryRun
    /\ outcome.response.page = task.followed.page + 1
    /\ upstream = <<>>

=============================================================================
